---- MODULE Spec2Model ----
(***************************************************************************)
(* Model of processMeerKAT.py: the planner that turns a config (stage      *)
(* lists, spw range, SLURM resources) into sbatch descriptors, partition   *)
(* directories and a master submission script.                             *)
(*                                                                         *)
(* Texts are modelled by their structure:                                  *)
(*   a number text  is [v |-> value, dot |-> "the text contains a '.'"],   *)
(*   an spw text    is [kind, pre, lo, hi, unit, items] where kind is      *)
(*                    "range" (lo~hiUNIT), "list" (comma separated items)  *)
(*                    or "bad" (anything else, the empty text included),   *)
(*                    and pre says whether the text carries SPW_PREFIX,    *)
(*   a script name  is [base, ext].                                        *)
(* Numeric values are fixed-point integers in units of 1/Scale, with Scale *)
(* chosen so that every quotient the splitting arithmetic forms is exact.  *)
(***************************************************************************)
EXTENDS Integers, Sequences, FiniteSets, TLC

VARIABLES pc, argv, cfg, dirs, ret, top, kwds, queue, clock, runs

vars == <<pc, argv, cfg, dirs, ret, top, kwds, queue, clock, runs>>

\* ------------------------------------------------------------ constants
TOTAL_NODES_LIMIT == 3
CPUS_PER_NODE_LIMIT == 16
NTASKS_PER_NODE_LIMIT == CPUS_PER_NODE_LIMIT
MEM_PER_NODE_GB_LIMIT == 24
MEM_PER_NODE_GB_LIMIT_HIGHMEM == 26

\* ------------------------------------------------------------ bounds
\* largest partition count (nspw) drawn for a run
MaxNspw == 5

\* ------------------------------------------------------------ numbers
RECURSIVE Gcd(_, _)
Gcd(a, b) == IF b = 0 THEN a ELSE Gcd(b, a % b)

RECURSIVE LcmUpTo(_)
LcmUpTo(n) == IF n <= 1 THEN 1 ELSE LET l == LcmUpTo(n - 1) IN (l * n) \div Gcd(l, n)

\* Units per 1.0: halves in the inputs, divisions by nspw and by nspw-1.
Scale == 2 * LcmUpTo(MaxNspw)

\* the value of the integer n, and of n + 0.5
Whole(n) == n * Scale
Half(n) == n * Scale + (Scale \div 2)

\* Python int(x): truncation towards zero
PyInt(x) == IF x >= 0 THEN (x \div Scale) * Scale ELSE 0 - (((0 - x) \div Scale) * Scale)

\* mutant of ApplyFunc: int() does not truncate
ApplyFuncNoTrunc(func, x) == x

\* func(x) for func in {int, float}
ApplyFunc(func, x) == IF func = "int" THEN PyInt(x) ELSE x

\* '{0}'.format(func(x)): an int prints without '.', a float with one
FormatNum(func, x) == [v |-> ApplyFunc(func, x), dot |-> func = "float"]

\* ------------------------------------------------------------ spw texts
NoNum == [v |-> 0, dot |-> FALSE]

RangeText(pre, lo, hi, unit) ==
    [kind |-> "range", pre |-> pre, lo |-> lo, hi |-> hi, unit |-> unit, items |-> <<>>]

BadText == [kind |-> "bad", pre |-> FALSE, lo |-> NoNum, hi |-> NoNum, unit |-> "", items |-> <<>>]

ListText(items) ==
    [kind |-> "list", pre |-> FALSE, lo |-> NoNum, hi |-> NoNum, unit |-> "", items |-> items]

\* ','.join(SPWs)
Join(SPWs) ==
    IF Len(SPWs) = 0 THEN BadText
    ELSE IF Len(SPWs) = 1 THEN SPWs[1]
    ELSE ListText(SPWs)

\* spw.split(',')
SplitComma(spw) == IF spw.kind = "list" THEN spw.items ELSE <<spw>>

\* ',' in spw
HasComma(spw) == spw.kind = "list"

\* '{0}{1}'.format(SPW_PREFIX, freq)
AddPrefix(t) == IF t.kind = "range" THEN [t EXCEPT !.pre = TRUE] ELSE t

\* spw.replace(SPW_PREFIX, '')
StripPrefix(t) ==
    IF t.kind = "range" THEN [t EXCEPT !.pre = FALSE]
    ELSE IF t.kind = "list"
         THEN [t EXCEPT !.items = [i \in 1..Len(t.items) |-> [t.items[i] EXCEPT !.pre = FALSE]]]
         ELSE t

\* ------------------------------------------------------------ get_spw_bounds
NoBounds == [none |-> TRUE, raised |-> FALSE, low |-> 0, high |-> 0, unit |-> "", func |-> "int"]

get_spw_bounds(spw) ==
    IF spw.kind = "range" /\ spw.pre
    THEN LET unit == spw.unit
             lowInt == unit = "" \/ ~spw.lo.dot
             highInt == unit = "" \/ ~spw.hi.dot
         IN  IF (lowInt /\ spw.lo.dot) \/ (highInt /\ spw.hi.dot)
             THEN [NoBounds EXCEPT !.none = FALSE, !.raised = TRUE]
             ELSE [none |-> FALSE, raised |-> FALSE, low |-> spw.lo.v, high |-> spw.hi.v,
                   unit |-> unit, func |-> IF highInt THEN "int" ELSE "float"]
    ELSE NoBounds

\* ------------------------------------------------------------ linspace
\* mutant of linspace: the step divides by length instead of length-1
linspaceOpenEnded(lower, upper, length) ==
    [i \in 1..length |-> lower + (((i - 1) * (upper - lower)) \div length)]

linspace(lower, upper, length) ==
    [i \in 1..length |-> lower + (((i - 1) * (upper - lower)) \div (length - 1))]

\* ------------------------------------------------------------ spw_split
\* for freq in badfreqranges: ... break  (lines 1429-1434); "raise" when
\* get_spw_bounds gives None or raises for a bad range
\* mutant of BadFreqScan: a sub-range is dropped when it merely overlaps a bad range
RECURSIVE BadFreqScanOverlap(_, _, _, _)
BadFreqScanOverlap(low, high, badfreqranges, k) ==
    IF k > Len(badfreqranges) THEN "miss"
    ELSE LET b == get_spw_bounds(AddPrefix(badfreqranges[k]))
         IN  IF b.none \/ b.raised THEN "raise"
             ELSE IF high >= b.low /\ low <= b.high THEN "hit"
             ELSE BadFreqScanOverlap(low, high, badfreqranges, k + 1)

RECURSIVE BadFreqScan(_, _, _, _)
BadFreqScan(low, high, badfreqranges, k) ==
    IF k > Len(badfreqranges) THEN "miss"
    ELSE LET b == get_spw_bounds(AddPrefix(badfreqranges[k]))
         IN  IF b.none \/ b.raised THEN "raise"
             ELSE IF low >= b.low /\ high <= b.high THEN "hit"
             ELSE BadFreqScan(low, high, badfreqranges, k + 1)

\* mutant of PruneLoop: after a sub-range is dropped the index still advances
RECURSIVE PruneLoopSkipsNext(_, _, _, _, _)
PruneLoopSkipsNext(SPWs, i, nspw, unit, badfreqranges) ==
    IF ~(i < nspw) THEN [SPWs |-> SPWs, nspw |-> nspw, raised |-> FALSE]
    ELSE IF i + 1 > Len(SPWs) THEN [SPWs |-> SPWs, nspw |-> nspw, raised |-> TRUE]
    ELSE LET b == get_spw_bounds(SPWs[i + 1])
             scan == IF unit = "MHz"
                     THEN BadFreqScan(b.low, b.high, badfreqranges, 1)
                     ELSE "miss"
         IN  IF b.none \/ b.raised \/ scan = "raise"
             THEN [SPWs |-> SPWs, nspw |-> nspw, raised |-> TRUE]
             ELSE IF scan = "hit"
             THEN PruneLoopSkipsNext([k \in 1..(Len(SPWs) - 1) |->
                                         IF k < i + 1 THEN SPWs[k] ELSE SPWs[k + 1]],
                                     i + 1, nspw - 1, unit, badfreqranges)
             ELSE PruneLoopSkipsNext(SPWs, i + 1, nspw, unit, badfreqranges)

\* the while loop of lines 1424-1439; i is the 0-based index of the code
RECURSIVE PruneLoop(_, _, _, _, _)
PruneLoop(SPWs, i, nspw, unit, badfreqranges) ==
    IF ~(i < nspw) THEN [SPWs |-> SPWs, nspw |-> nspw, raised |-> FALSE]
    ELSE IF i + 1 > Len(SPWs) THEN [SPWs |-> SPWs, nspw |-> nspw, raised |-> TRUE]
    ELSE LET b == get_spw_bounds(SPWs[i + 1])
             scan == IF unit = "MHz"
                     THEN BadFreqScan(b.low, b.high, badfreqranges, 1)
                     ELSE "miss"
         IN  IF b.none \/ b.raised \/ scan = "raise"
             THEN [SPWs |-> SPWs, nspw |-> nspw, raised |-> TRUE]
             ELSE IF scan = "hit"
             THEN PruneLoop([k \in 1..(Len(SPWs) - 1) |->
                                IF k < i + 1 THEN SPWs[k] ELSE SPWs[k + 1]],
                            i, nspw - 1, unit, badfreqranges)
             ELSE PruneLoop(SPWs, i + 1, nspw, unit, badfreqranges)

\* the nspw frequency ranges of lines 1403-1411
RangeSPWs(b, nspw) ==
    LET interval == ApplyFunc(b.func, (b.high - b.low) \div nspw)
        lo == linspace(b.low, b.high - interval, nspw)
        hi == linspace(b.low + interval, b.high, nspw)
    IN  [i \in 1..nspw |->
            RangeText(TRUE, FormatNum(b.func, lo[i]), FormatNum(b.func, hi[i]), b.unit)]

NoVis == [abs |-> FALSE, up |-> 0, sub |-> BadText, ext |-> ""]

\* mutant of SpwConfig: the precal and postcal lists are left as the parent config has them
SpwConfigKeepsLists(config, spw, mem, MS, partition, createmms) ==
    LET up == IF MS.abs THEN MS ELSE [MS EXCEPT !.up = @ + 1]
        c  == [config EXCEPT !.spw = spw, !.nspw = 1, !.mem = mem, !.calcrefant = FALSE,
                             !.vis = IF MS.abs THEN @ ELSE up]
    IN  IF partition THEN c
        ELSE [c EXCEPT !.orig_vis = c.vis,
                       !.vis = [abs |-> FALSE, up |-> 0, sub |-> StripPrefix(spw),
                                ext |-> IF createmms THEN "mms" ELSE "ms"]]

\* mutant of SpwConfig: calcrefant is left as the parent config has it
SpwConfigKeepsCalcrefant(config, spw, mem, MS, partition, createmms) ==
    LET up == IF MS.abs THEN MS ELSE [MS EXCEPT !.up = @ + 1]
        c  == [config EXCEPT !.spw = spw, !.nspw = 1, !.mem = mem,
                             !.precal_scripts = <<>>, !.postcal_scripts = <<>>,
                             !.vis = IF MS.abs THEN @ ELSE up]
    IN  IF partition THEN c
        ELSE [c EXCEPT !.orig_vis = c.vis,
                       !.vis = [abs |-> FALSE, up |-> 0, sub |-> StripPrefix(spw),
                                ext |-> IF createmms THEN "mms" ELSE "ms"]]

\* SpwConfig of a parent config copied before its timestamp was written
SpwConfigWithoutTimestamp(config, spw, mem, MS, partition, createmms) ==
    LET up == IF MS.abs THEN MS ELSE [MS EXCEPT !.up = @ + 1]
        c  == [config EXCEPT !.spw = spw, !.nspw = 1, !.mem = mem, !.calcrefant = FALSE, !.timestamp = 0,
                             !.precal_scripts = <<>>, !.postcal_scripts = <<>>,
                             !.vis = IF MS.abs THEN @ ELSE up]
    IN  IF partition THEN c
        ELSE [c EXCEPT !.orig_vis = c.vis,
                       !.vis = [abs |-> FALSE, up |-> 0, sub |-> StripPrefix(spw),
                                ext |-> IF createmms THEN "mms" ELSE "ms"]]

\* the config copy placed in the directory of one spw (lines 1450-1475)
SpwConfig(config, spw, mem, MS, partition, createmms) ==
    LET up == IF MS.abs THEN MS ELSE [MS EXCEPT !.up = @ + 1]
        c  == [config EXCEPT !.spw = spw, !.nspw = 1, !.mem = mem, !.calcrefant = FALSE,
                             !.precal_scripts = <<>>, !.postcal_scripts = <<>>,
                             !.vis = IF MS.abs THEN @ ELSE up]
    IN  IF partition THEN c
        ELSE [c EXCEPT !.orig_vis = c.vis,
                       !.vis = [abs |-> FALSE, up |-> 0, sub |-> StripPrefix(spw),
                                ext |-> IF createmms THEN "mms" ELSE "ms"]]

WriteBackSpwSkipped(config, SPWs) == config

\* the spw of the config overwritten with the spws that are left (line 1442)
WriteBackSpw(config, SPWs) == [config EXCEPT !.spw = Join(SPWs)]

\* the directory of one spw: the one already there, or a new one (lines 1445-1448)
SpwDir(ds, name) ==
    IF \E d \in ds : d.name = name
    THEN CHOOSE d \in ds : d.name = name
    ELSE [name |-> name, cfg |-> <<>>, tmp |-> <<>>, sbatch |-> {}, master |-> <<>>]

spw_split(spw, nspw, config, ds, mem, badfreqranges, MS, partition, createmms) ==
    LET b == get_spw_bounds(spw)
        unchanged == [ret |-> 1, raised |-> FALSE, all |-> <<>>, SPWs |-> <<>>,
                      cfg |-> config, dirs |-> ds]
        raise == [unchanged EXCEPT !.raised = TRUE]
    IN  IF b.raised THEN raise
        ELSE IF b.none /\ ~HasComma(spw) THEN unchanged
        ELSE LET all == IF ~b.none THEN RangeSPWs(b, nspw) ELSE SplitComma(spw)
                 ub == IF ~b.none THEN b ELSE get_spw_bounds(all[1])
                 n0 == IF ~b.none THEN nspw ELSE Len(all)
             IN  IF ub.none \/ ub.raised THEN raise
                 ELSE LET p == PruneLoop(all, 0, n0, ub.unit, badfreqranges)
                          parent == WriteBackSpw(config, p.SPWs)
                          names == {StripPrefix(p.SPWs[i]) : i \in 1..Len(p.SPWs)}
                      IN  IF p.raised THEN raise
                          ELSE [ret |-> p.nspw, raised |-> FALSE, all |-> all,
                                SPWs |-> p.SPWs, cfg |-> parent,
                                dirs |-> {d \in ds : d.name \notin names} \cup
                                         {[SpwDir(ds, StripPrefix(p.SPWs[i])) EXCEPT
                                              !.cfg = SpwConfig(parent, p.SPWs[i], mem, MS,
                                                                partition, createmms)]
                                            : i \in 1..Len(p.SPWs)}]

\* ------------------------------------------------------------ configs
Script(base) == [base |-> base, ext |-> "py"]

Stage(base, threadsafe) == [name |-> Script(base), ts |-> threadsafe]

\* a config as [-B --build] leaves it, before the choices of a run are put in
BaseConfig ==
    [spw |-> BadText, nspw |-> 1, badfreqranges |-> <<>>,
     calcrefant |-> TRUE, createmms |-> TRUE, keepmms |-> TRUE,
     precal_scripts |-> <<>>, scripts |-> <<>>, postcal_scripts |-> <<>>,
     nodes |-> 1, ntasks_per_node |-> 8, mem |-> MEM_PER_NODE_GB_LIMIT, plane |-> 1,
     partition |-> "Main", dependencies |-> <<>>, account |-> "b03-idia-ag",
     reservation |-> "",
     selfcal |-> FALSE, nloops |-> 0, loop |-> 0, dopol |-> FALSE, timestamp |-> 0,
     submit |-> FALSE, complete |-> TRUE,
     vis |-> [abs |-> FALSE, up |-> 0, sub |-> BadText, ext |-> "ms"], orig_vis |-> NoVis]

NoRet == [spw |-> BadText, nspw |-> 0, ret |-> 0, raised |-> FALSE, all |-> <<>>, SPWs |-> <<>>]

\* ------------------------------------------------------------ script names
\* which of the substrings the code tests for occur in a script's file name
Substrings(base) ==
    CASE base = "partition" -> {"partition"}
      [] base = "quick_tclean" -> {"tclean"}
      [] base = "selfcal_part1" -> {"selfcal"}
      [] base = "selfcal_part2" -> {"selfcal"}
      [] base = "science_image" -> {"image"}
      [] base = "plotcal_spw" -> {"plot"}
      [] OTHER -> {}

\* sub in script
Contains(sub, script) == sub \in Substrings(script.base)

\* os.path.split(script)[1].replace('.py','.sbatch')
SbatchName(script) == [script EXCEPT !.ext = IF @ = "py" THEN "sbatch" ELSE @]

Sbatch(base) == [base |-> base, ext |-> "sbatch"]

\* os.path.splitext(os.path.split(script)[1])[0]
JobName(script) == script.base

\* list.index(x): position of the first occurrence (1-based), 0 when absent
RECURSIVE IndexFrom(_, _, _)
IndexFrom(seq, x, k) ==
    IF k > Len(seq) THEN 0 ELSE IF seq[k] = x THEN k ELSE IndexFrom(seq, x, k + 1)

Index(seq, x) == IndexFrom(seq, x, 1)

\* list.pop(i), 1-based
Pop(seq, i) == [k \in 1..(Len(seq) - 1) |-> IF k < i THEN seq[k] ELSE seq[k + 1]]

\* seq * n (the empty list for n <= 0)
RECURSIVE Times(_, _)
Times(seq, n) == IF n <= 0 THEN <<>> ELSE seq \o Times(seq, n - 1)

\* ------------------------------------------------------------ write_sbatch

CpusPerTaskFourForPol(script, tasks, dopol) ==
    LET multi == Contains("tclean", script) \/ Contains("selfcal", script)
                 \/ Contains("partition", script) \/ Contains("image", script)
        cpus == IF multi THEN CPUS_PER_NODE_LIMIT \div tasks ELSE 1
    IN  IF Contains("partition", script)
        THEN IF dopol THEN 4
             ELSE IF cpus > 2 THEN 2
             ELSE cpus
        ELSE cpus

\* CpusPerTask without the cap at 2 cpus for a partition script without dopol
CpusPerTaskNoCap(script, tasks, dopol) ==
    LET multi == Contains("tclean", script) \/ Contains("selfcal", script)
                 \/ Contains("partition", script) \/ Contains("image", script)
        cpus == IF multi THEN CPUS_PER_NODE_LIMIT \div tasks ELSE 1
    IN  IF Contains("partition", script) /\ dopol /\ 4 * tasks < CPUS_PER_NODE_LIMIT THEN 4
        ELSE cpus

\* cpus-per-task (lines 467-477); 0 tasks make int(16/tasks) raise
CpusPerTask(script, tasks, dopol) ==
    LET multi == Contains("tclean", script) \/ Contains("selfcal", script)
                 \/ Contains("partition", script) \/ Contains("image", script)
        cpus == IF multi THEN CPUS_PER_NODE_LIMIT \div tasks ELSE 1
    IN  IF Contains("partition", script)
        THEN IF dopol /\ 4 * tasks < CPUS_PER_NODE_LIMIT THEN 4
             ELSE IF ~dopol /\ cpus > 2 THEN 2
             ELSE cpus
        ELSE cpus

\* MemRequest without the test of the HighMem partition
MemRequestMainOnly(cpus, tasks, mem, partition) ==
    IF cpus * tasks = CPUS_PER_NODE_LIMIT THEN MEM_PER_NODE_GB_LIMIT ELSE mem

\* --mem (lines 479-484)
MemRequest(cpus, tasks, mem, partition) ==
    IF cpus * tasks = CPUS_PER_NODE_LIMIT
    THEN IF partition = "HighMem" THEN MEM_PER_NODE_GB_LIMIT_HIGHMEM ELSE MEM_PER_NODE_GB_LIMIT
    ELSE mem

MaxConcurrentCpus == 200

\* nconcurrent without the division by the cpus of one task
ConcurrentPerTask(nodes, tasks, cpus, nspw) ==
    LET n == MaxConcurrentCpus \div (nodes * tasks)
    IN  IF n > nspw THEN nspw ELSE n

\* nconcurrent (lines 495-498)
Concurrent(nodes, tasks, cpus, nspw) ==
    LET n == MaxConcurrentCpus \div (nodes * tasks * cpus)
    IN  IF n > nspw THEN nspw ELSE n

IsArrayJobForPartition(script, SPWs, nspw) == Contains("partition", script)

\* the job array of the partition script (lines 370, 501)
IsArrayJob(script, SPWs, nspw) == Contains("partition", script) /\ HasComma(SPWs) /\ nspw > 1

\* write_sbatch without the test of justrun at line 542
write_sbatchAlwaysWrites(wd, script, nodes, tasks, mem, name, plane, partition, SPWs, nspw, justrun) ==
    LET multi == Contains("tclean", script) \/ Contains("selfcal", script)
                 \/ Contains("partition", script) \/ Contains("image", script)
        notmp == Contains("partition", script) /\ wd.tmp = <<>>
        dopol == IF Contains("partition", script) /\ wd.tmp # <<>> THEN wd.tmp[1].dopol ELSE FALSE
    IN  IF (multi /\ tasks = 0) \/ notmp THEN [wd |-> wd, raised |-> TRUE]
        ELSE LET cpus == CpusPerTask(script, tasks, dopol)
                 array == IsArrayJob(script, SPWs, nspw)
             IN  IF nodes * tasks * cpus = 0 THEN [wd |-> wd, raised |-> TRUE]
                 ELSE LET contents ==
                              [name |-> name, nodes |-> nodes, tasks |-> tasks, cpus |-> cpus,
                               mem |-> MemRequest(cpus, tasks, mem, partition),
                               plane |-> plane, partition |-> partition,
                               array |-> array,
                               last |-> IF array THEN nspw - 1 ELSE 0,
                               cap |-> IF array THEN Concurrent(nodes, tasks, cpus, nspw) ELSE 0,
                               spws |-> IF array THEN SplitComma(StripPrefix(SPWs)) ELSE <<>>]
                      IN  IF FALSE /\ justrun
                          THEN [wd |-> wd, raised |-> FALSE]
                          ELSE [wd |-> [wd EXCEPT !.sbatch =
                                           {f \in @ : f.name # name} \cup {contents}],
                                raised |-> FALSE]

write_sbatch(wd, script, nodes, tasks, mem, name, plane, partition, SPWs, nspw, justrun) ==
    LET multi == Contains("tclean", script) \/ Contains("selfcal", script)
                 \/ Contains("partition", script) \/ Contains("image", script)
        notmp == Contains("partition", script) /\ wd.tmp = <<>>
        dopol == IF Contains("partition", script) /\ wd.tmp # <<>> THEN wd.tmp[1].dopol ELSE FALSE
    IN  IF (multi /\ tasks = 0) \/ notmp THEN [wd |-> wd, raised |-> TRUE]
        ELSE LET cpus == CpusPerTask(script, tasks, dopol)
                 array == IsArrayJob(script, SPWs, nspw)
             IN  IF nodes * tasks * cpus = 0 THEN [wd |-> wd, raised |-> TRUE]
                 ELSE LET contents ==
                              [name |-> name, nodes |-> nodes, tasks |-> tasks, cpus |-> cpus,
                               mem |-> MemRequest(cpus, tasks, mem, partition),
                               plane |-> plane, partition |-> partition,
                               array |-> array,
                               last |-> IF array THEN nspw - 1 ELSE 0,
                               cap |-> IF array THEN Concurrent(nodes, tasks, cpus, nspw) ELSE 0,
                               spws |-> IF array THEN SplitComma(StripPrefix(SPWs)) ELSE <<>>]
                      IN  IF justrun /\ \E f \in wd.sbatch : f.name = name
                          THEN [wd |-> wd, raised |-> FALSE]
                          ELSE [wd |-> [wd EXCEPT !.sbatch =
                                           {f \in @ : f.name # name} \cup {contents}],
                                raised |-> FALSE]

\* ------------------------------------------------------------ master script lines
NoScript == [base |-> "", ext |-> ""]

ScriptLine(op, var, assign, dtype, dvar, kill, script, spw, n, deps) ==
    [op |-> op, var |-> var, assign |-> assign, dtype |-> dtype, dvar |-> dvar,
     kill |-> kill, script |-> script, spw |-> spw, n |-> n, deps |-> deps]

\* #!/bin/bash
Shebang == ScriptLine("shebang", "", "", "none", "", FALSE, NoScript, BadText, 0, <<>>)

\* cp config TMP_CONFIG
CopyConfig == ScriptLine("cp", "", "", "none", "", FALSE, NoScript, BadText, 0, <<>>)

\* Dep=<dependencies>
SetDep(dependencies) ==
    ScriptLine("assign", "Dep", "set", "none", "", FALSE, NoScript, BadText, 0, dependencies)

\* var=$(sbatch [-d dtype:${dvar//,/:} [--kill-on-invalid-dep=yes]] script | cut -d ' ' -f4)
\* or var+=,$(...)
SbatchLine(var, assign, dtype, dvar, kill, script) ==
    ScriptLine("sbatch", var, assign, dtype, dvar, kill, script, BadText, 0, <<>>)

\* partitionID=$(echo $allSPWIDs | cut -d , -f<n>)
CutLine(n) ==
    ScriptLine("cut", "partitionID", "set", "none", "allSPWIDs", FALSE, NoScript, BadText, n, <<>>)

\* DATE=<timestamp>
DateLine(timestamp) ==
    ScriptLine("date", "DATE", "set", "none", "", FALSE, NoScript, BadText, timestamp, <<>>)

\* cd spw; output=$(processMeerKAT.py --config ./config --run --submit --quiet --justrun
\*   [--dependencies=...]); IDs=|IDs+=,$(echo $output | sed ...); cd ..
\* dtype "task": --dependencies=$partitionID\_<n>; "var": --dependencies=$allSPWIDs;
\* "literal": --dependencies=<deps>; "none": no --dependencies
NestedLine(assign, dtype, dvar, spw, n, deps) ==
    ScriptLine("nested", "IDs", assign, dtype, dvar, FALSE, NoScript, spw, n, deps)

\* the companion scripts written for the identifiers in $<dvar>
AncillaryLine(dvar) ==
    ScriptLine("ancillary", "", "", "none", dvar, FALSE, NoScript, BadText, 0, <<>>)

\* ------------------------------------------------------------ selfcal loops
\* "Hack to perform correct number of selfcal loops" (lines 757-769 and 641-653)
SelfcalUnrollOnePairLess(config, scripts) ==
    LET p1 == Sbatch("selfcal_part1")
        p2 == Sbatch("selfcal_part2")
        idx == Index(scripts, p2)
        selfcal_loops == config.nloops - config.loop
    IN  IF config.selfcal /\ Index(scripts, p1) # 0 /\ idx # 0 /\ idx = Index(scripts, p1) + 1
        THEN SubSeq(scripts, 1, idx) \o Times(<<p1, p2>>, selfcal_loops - 2) \o <<p1>>
             \o SubSeq(scripts, idx + 1, Len(scripts))
        ELSE scripts

\* mutant of SelfcalUnroll: the trailing selfcal_part1 is not appended
SelfcalUnrollNoTrailing(config, scripts) ==
    LET p1 == Sbatch("selfcal_part1")
        p2 == Sbatch("selfcal_part2")
        idx == Index(scripts, p2)
        selfcal_loops == config.nloops - config.loop
    IN  IF config.selfcal /\ Index(scripts, p1) # 0 /\ idx # 0 /\ idx = Index(scripts, p1) + 1
        THEN SubSeq(scripts, 1, idx) \o Times(<<p1, p2>>, selfcal_loops - 1)
             \o SubSeq(scripts, idx + 1, Len(scripts))
        ELSE scripts

SelfcalUnroll(config, scripts) ==
    LET p1 == Sbatch("selfcal_part1")
        p2 == Sbatch("selfcal_part2")
        idx == Index(scripts, p2)
        selfcal_loops == config.nloops - config.loop
    IN  IF config.selfcal /\ Index(scripts, p1) # 0 /\ idx # 0 /\ idx = Index(scripts, p1) + 1
        THEN SubSeq(scripts, 1, idx) \o Times(<<p1, p2>>, selfcal_loops - 1) \o <<p1>>
             \o SubSeq(scripts, idx + 1, Len(scripts))
        ELSE scripts

\* ------------------------------------------------------------ validate_args
\* TRUE when validate_args raises for the [slurm] values of the config
validate_args(args) ==
    \/ args.ntasks_per_node > NTASKS_PER_NODE_LIMIT
    \/ args.nodes > TOTAL_NODES_LIMIT
    \/ /\ args.mem > MEM_PER_NODE_GB_LIMIT
       /\ \/ args.partition # "HighMem"
          \/ args.mem > MEM_PER_NODE_GB_LIMIT_HIGHMEM
    \/ args.plane > args.ntasks_per_node
    \/ args.account \notin {"ubuntu", "b03-idia-ag", "b05-pipelines-ag"}
    \/ args.reservation # ""

\* ------------------------------------------------------------ format_args
Names(stages) == [i \in 1..Len(stages) |-> stages[i].name]

NoKwargs ==
    [scripts |-> <<>>, threadsafe |-> <<>>, num_precal_scripts |-> 0, nodes |-> 0,
     ntasks_per_node |-> 0, mem |-> 0, plane |-> 0, partition |-> "", submit |-> FALSE,
     dependencies |-> <<>>, timestamp |-> 0, justrun |-> FALSE, quiet |-> FALSE]

\* the stage lists of the run and the config that holds them (lines 1185-1248)
MergeScripts(c0) ==
    LET nspw == IF c0.nspw > 1 /\ Len(c0.scripts) = 0 THEN 1 ELSE c0.nspw
        merge == Len(c0.precal_scripts) > 0 \/ Len(c0.postcal_scripts) > 0
        refant == Script("calc_refant")
        precal == IF Index(Names(c0.precal_scripts), refant) # 0
                     /\ Index(Names(c0.scripts), refant) # 0
                  THEN Pop(c0.precal_scripts, Index(Names(c0.precal_scripts), refant))
                  ELSE c0.precal_scripts
    IN  IF nspw = 1 /\ merge
        THEN [cfg |-> [c0 EXCEPT !.nspw = nspw, !.precal_scripts = <<>>,
                                 !.postcal_scripts = <<>>,
                                 !.scripts = precal \o c0.scripts \o c0.postcal_scripts],
              scripts |-> precal \o c0.scripts \o c0.postcal_scripts,
              nspw |-> nspw, num |-> 0]
        ELSE [cfg |-> [c0 EXCEPT !.nspw = nspw],
              scripts |-> IF nspw = 1 THEN c0.scripts
                          ELSE c0.precal_scripts \o c0.postcal_scripts,
              nspw |-> nspw, num |-> Len(c0.precal_scripts)]

\* kwargs['threadsafe'] (lines 1257-1275)
Threadsafe(scripts, createmms, keepmms, nspw, num_precal_scripts) ==
    LET names == Names(scripts)
        forced == {Index(names, Script("quick_tclean")), Index(names, Script("selfcal_part1")),
                   Index(names, Script("science_image"))}
    IN  [i \in 1..Len(scripts) |->
            IF i \in forced THEN TRUE
            ELSE IF ~createmms THEN FALSE
            ELSE IF ~keepmms /\ i = Index(names, Script("split")) THEN FALSE
            ELSE IF ~keepmms /\ nspw # 1 /\ i > num_precal_scripts THEN FALSE
            ELSE scripts[i].ts]

\* mem handed to spw_split (lines 1278-1279)
SpwMem(mem, ntasks_per_node, nspw) ==
    IF ntasks_per_node < NTASKS_PER_NODE_LIMIT /\ nspw > 1 THEN (2 * mem) \div nspw ELSE mem

\* keepmms, dopol and timestamp written to the config (lines 1260-1262, 1281-1291)
WriteRunKeys(config, names, nspw, now) ==
    [config EXCEPT
        !.keepmms = IF ~config.createmms THEN FALSE ELSE @,
        !.dopol = IF Index(names, Script("xy_yx_solve")) # 0
                     \/ Index(names, Script("xy_yx_apply")) # 0 THEN TRUE ELSE @,
        !.timestamp = IF nspw > 1 THEN now ELSE @]

\* mutant of WriteBackNspw: the number spw_split returns is not written
WriteBackNspwSkipped(split) == [cfg |-> split.cfg, dirs |-> split.dirs, raised |-> split.raised]

\* the number of spws spw_split returns written to the config (line 1293)
WriteBackNspw(split) ==
    [cfg |-> IF split.raised THEN split.cfg ELSE [split.cfg EXCEPT !.nspw = split.ret],
     dirs |-> split.dirs, raised |-> split.raised]

\* lines 1286-1293
SplitIntoSpws(wd, config, names, nspw) ==
    IF nspw > 1
    THEN WriteBackNspw(
             spw_split(config.spw, nspw, config, wd.dirs,
                       SpwMem(config.mem, config.ntasks_per_node, nspw), config.badfreqranges,
                       config.vis, \E i \in 1..Len(names) : Contains("partition", names[i]),
                       config.createmms))
    ELSE [cfg |-> config, dirs |-> wd.dirs, raised |-> FALSE]

\* the kwargs handed to write_jobs (lines 1254-1258, 1295-1313)
Kwargs(c0, names, threadsafe, num, nspw, submit, quiet, dependencies, justrun, now) ==
    LET drop == IF c0.calcrefant THEN 0 ELSE Index(names, Script("calc_refant"))
    IN  [scripts |-> IF drop # 0 THEN Pop(names, drop) ELSE names,
         threadsafe |-> IF drop # 0 THEN Pop(threadsafe, drop) ELSE threadsafe,
         num_precal_scripts |-> IF drop # 0 THEN num - 1 ELSE num,
         nodes |-> c0.nodes, ntasks_per_node |-> c0.ntasks_per_node, mem |-> c0.mem,
         plane |-> c0.plane, partition |-> c0.partition,
         submit |-> submit \/ c0.submit,
         dependencies |-> IF dependencies # <<>> THEN dependencies ELSE c0.dependencies,
         timestamp |-> IF nspw > 1 THEN now ELSE 0,
         justrun |-> justrun, quiet |-> quiet]

\* lines 1295-1325, after spw_split
FormatSplit(wd, m, s, submit, quiet, dependencies, justrun, now) ==
    IF s.raised THEN [wd |-> [wd EXCEPT !.cfg = s.cfg], kwargs |-> NoKwargs, raised |-> TRUE]
    ELSE [wd |-> [wd EXCEPT !.cfg = s.cfg, !.dirs = s.dirs, !.tmp = <<s.cfg>>],
          kwargs |-> Kwargs(wd.cfg, Names(m.scripts),
                            Threadsafe(m.scripts, wd.cfg.createmms, wd.cfg.keepmms, m.nspw,
                                       m.num),
                            m.num, m.nspw, submit, quiet, dependencies, justrun, now),
          raised |-> FALSE]

\* lines 1250-1325, after the stage lists were merged
FormatMerged(wd, m, submit, quiet, dependencies, justrun, now) ==
    IF validate_args(m.cfg)
    THEN [wd |-> [wd EXCEPT !.cfg = m.cfg], kwargs |-> NoKwargs, raised |-> TRUE]
    ELSE FormatSplit(wd, m,
                     SplitIntoSpws(wd, WriteRunKeys(m.cfg, Names(m.scripts), m.nspw, now),
                                   Names(m.scripts), m.nspw),
                     submit, quiet, dependencies, justrun, now)

format_args(wd, submit, quiet, dependencies, justrun, now) ==
    IF ~wd.cfg.complete THEN [wd |-> wd, kwargs |-> NoKwargs, raised |-> TRUE]
    ELSE FormatMerged(wd, MergeScripts(wd.cfg), submit, quiet, dependencies, justrun, now)

\* ------------------------------------------------------------ running a master script
\* a job identifier as sbatch prints it; task >= 0 names one task of a job array
Ref(id) == [id |-> id, task |-> 0 - 1]

TaskRef(id, task) == [id |-> id, task |-> task]

NoEnv == [Dep |-> <<>>, IDs |-> <<>>, allSPWIDs |-> <<>>, partitionID |-> <<>>]

AssignOverwrites(env, var, assign, value) == [env EXCEPT ![var] = value]

\* var=value or var+=,value
Assign(env, var, assign, value) ==
    [env EXCEPT ![var] = IF assign = "set" THEN value ELSE @ \o value]

\* the job one sbatch call puts in the queue
Job(line, env, dir) ==
    [script |-> line.script, dir |-> dir, dtype |-> line.dtype,
     deps |-> IF line.dtype = "none" THEN <<>> ELSE env[line.dvar],
     kill |-> line.kill, state |-> "pending"]

\* the files of the top-level work directory besides the config
NoTopFiles == [tmp |-> <<>>, sbatch |-> {}, master |-> <<>>]

\* the work directory a run inside an spw directory sees, and back
DirAsWd(d) == [cfg |-> d.cfg, tmp |-> d.tmp, sbatch |-> d.sbatch, master |-> d.master, dirs |-> {}]

WdAsDir(name, wd) ==
    [name |-> name, cfg |-> wd.cfg, tmp |-> wd.tmp, sbatch |-> wd.sbatch, master |-> wd.master]

TheDir(wd, name) == CHOOSE d \in wd.dirs : d.name = name

\* back in the top-level directory after a run r inside the spw directory d
BackFrom(wd, d, r) ==
    [wd |-> [wd EXCEPT !.dirs = (@ \ {d}) \cup {WdAsDir(d.name, r.wd)}],
     jobs |-> r.jobs, ids |-> r.ids]

\* --dependencies of the run inside an spw directory (lines 624-629)
NestedDeps(line, env) ==
    IF line.dtype = "task"
    THEN [k \in 1..Len(env.partitionID) |-> TaskRef(env.partitionID[k].id, line.n)]
    ELSE IF line.dtype = "var" THEN env.allSPWIDs
    ELSE line.deps

RECURSIVE write_jobs(_, _, _, _, _)

WithKwargs(w, kwargs) ==
    [wd |-> w.wd, jobs |-> w.jobs, ids |-> w.ids, raised |-> w.raised, kwargs |-> kwargs]

\* write_jobs(args.config, **kwargs) (line 1552)
WriteJobs(f, jobs, here, now) ==
    IF f.raised
    THEN [wd |-> f.wd, jobs |-> jobs, ids |-> <<>>, raised |-> TRUE, kwargs |-> f.kwargs]
    ELSE WithKwargs(write_jobs(f.wd, jobs, here, f.kwargs, now), f.kwargs)

\* [-R --run] (lines 1550-1552)
Run(wd, jobs, here, args, now) ==
    WriteJobs(format_args(wd, args.submit, args.quiet, args.dependencies, args.justrun, now),
              jobs, here, now)

\* the command line written into the master script for each spw directory (line 623)
SubmitArgs(dependencies) ==
    [submit |-> TRUE, quiet |-> TRUE, dependencies |-> dependencies, justrun |-> TRUE]

\* the command line of SPW_run_call (line 703)
PlanArgs == [submit |-> FALSE, quiet |-> TRUE, dependencies |-> <<>>, justrun |-> FALSE]

\* bash running the lines of a master script from line k on
RECURSIVE Exec(_, _, _, _, _, _, _)

\* IDs=$(echo $output | sed ...) after the run inside an spw directory (lines 631-635)
AfterNested(lines, k, back, env, here, now) ==
    Exec(lines, k + 1, back.wd, back.jobs,
         Assign(env, lines[k].var, lines[k].assign, back.ids), here, now)

Exec(lines, k, wd, jobs, env, here, now) ==
    IF k > Len(lines) THEN [wd |-> wd, jobs |-> jobs, ids |-> env.IDs, raised |-> FALSE]
    ELSE IF lines[k].op = "assign"
    THEN Exec(lines, k + 1, wd, jobs,
              Assign(env, lines[k].var, lines[k].assign, lines[k].deps), here, now)
    ELSE IF lines[k].op = "cp"
    THEN Exec(lines, k + 1, [wd EXCEPT !.tmp = <<wd.cfg>>], jobs, env, here, now)
    ELSE IF lines[k].op = "sbatch"
    THEN Exec(lines, k + 1, wd, Append(jobs, Job(lines[k], env, here)),
              Assign(env, lines[k].var, lines[k].assign, <<Ref(Len(jobs) + 1)>>), here, now)
    ELSE IF lines[k].op = "cut"
    THEN Exec(lines, k + 1, wd, jobs,
              Assign(env, lines[k].var, lines[k].assign,
                     IF lines[k].n \in 1..Len(env[lines[k].dvar])
                     THEN <<env[lines[k].dvar][lines[k].n]>> ELSE <<>>),
              here, now)
    ELSE IF lines[k].op = "nested" /\ \E d \in wd.dirs : d.name = lines[k].spw
    THEN AfterNested(lines, k,
                     BackFrom(wd, TheDir(wd, lines[k].spw),
                              Run(DirAsWd(TheDir(wd, lines[k].spw)), jobs, lines[k].spw,
                                  SubmitArgs(NestedDeps(lines[k], env)), now + 1)),
                     env, here, now)
    ELSE Exec(lines, k + 1, wd, jobs, env, here, now)

\* os.system('./submit_pipeline.sh') (lines 710-712, 812-814)
RunMaster(wd, jobs, here, now) == Exec(wd.master, 1, wd, jobs, NoEnv, here, now)

\* if submit: run the master script (lines 709-714, 811-816)
SubmitIfAsked(p, here, submit, now) ==
    IF p.raised \/ ~submit THEN p ELSE RunMaster(p.wd, p.jobs, here, now)

\* ------------------------------------------------------------ write_master
DepHeaderOmitted(dependencies) == <<>>

\* the Dep= line of a master script (lines 585-586, 773-775)
DepHeader(dependencies) == IF dependencies # <<>> THEN <<SetDep(dependencies)>> ELSE <<>>

MasterLinesLastOnly(scripts, dependencies, timestamp) ==
    <<Shebang, CopyConfig>> \o DepHeader(dependencies)
    \o (IF Len(scripts) = 0 THEN <<>>
        ELSE <<SbatchLine("IDs", "set", IF dependencies # <<>> THEN "afterok" ELSE "none",
                          IF dependencies # <<>> THEN "Dep" ELSE "", dependencies # <<>>,
                          scripts[1])>>
             \o [k \in 1..(Len(scripts) - 1) |->
                    SbatchLine("IDs", "set", "afterok", "IDs", TRUE, scripts[k + 1])]
             \o <<DateLine(timestamp), AncillaryLine("IDs")>>)

\* the lines of the master script of one chain (lines 740-810)
MasterLines(scripts, dependencies, timestamp) ==
    <<Shebang, CopyConfig>> \o DepHeader(dependencies)
    \o (IF Len(scripts) = 0 THEN <<>>
        ELSE <<SbatchLine("IDs", "set", IF dependencies # <<>> THEN "afterok" ELSE "none",
                          IF dependencies # <<>> THEN "Dep" ELSE "", dependencies # <<>>,
                          scripts[1])>>
             \o [k \in 1..(Len(scripts) - 1) |->
                    SbatchLine("IDs", "append", "afterok", "IDs", TRUE, scripts[k + 1])]
             \o <<DateLine(timestamp), AncillaryLine("IDs")>>)

\* the master script on disk, and the timestamp in the config (lines 740-810);
\* scripts[0] raises for an empty list
WriteMasterFile(wd, jobs, config, scripts, dependencies) ==
    [wd |-> [wd EXCEPT !.cfg = config,
                       !.master = MasterLines(scripts, dependencies, config.timestamp)],
     jobs |-> jobs, ids |-> <<>>, raised |-> Len(scripts) = 0]

write_master(wd, jobs, here, scripts, submit, dependencies, now) ==
    SubmitIfAsked(
        WriteMasterFile(wd, jobs, [wd.cfg EXCEPT !.timestamp = IF @ = 0 THEN now ELSE @],
                        SelfcalUnroll(wd.cfg, scripts), dependencies),
        here, submit, now)

\* ------------------------------------------------------------ write_spw_master
\* the submissions of the precal scripts (lines 582-595)
PrecalLines(precal_scripts, dependencies) ==
    IF Len(precal_scripts) = 0 THEN <<>>
    ELSE DepHeader(dependencies)
         \o <<SbatchLine("allSPWIDs", "set", IF dependencies # <<>> THEN "afterok" ELSE "none",
                         IF dependencies # <<>> THEN "Dep" ELSE "", dependencies # <<>>,
                         precal_scripts[1])>>
         \o [k \in 1..(Len(precal_scripts) - 1) |->
                SbatchLine("allSPWIDs", "append", "afterok", "allSPWIDs", TRUE,
                           precal_scripts[k + 1])]

\* the last precal script is the partition script (line 602)
EndsWithPartition(precal_scripts) ==
    Len(precal_scripts) > 0 /\ Contains("partition", precal_scripts[Len(precal_scripts)])

\* lines 603-604
PartitionLines(precal_scripts) ==
    IF EndsWithPartition(precal_scripts) THEN <<CutLine(Len(precal_scripts))>> ELSE <<>>

\* NestedLines with the directories counted from 1 in --dependencies
NestedLinesCountedFromOne(spws, precal_scripts, dependencies) ==
    LET npre == Len(precal_scripts)
        partition == EndsWithPartition(precal_scripts)
    IN  [i \in 1..Len(spws) |->
               NestedLine(IF i = 1 THEN "set" ELSE "append",
                          IF partition THEN "task"
                          ELSE IF npre > 0 THEN "var"
                          ELSE IF dependencies # <<>> THEN "literal" ELSE "none",
                          IF partition THEN "partitionID"
                          ELSE IF npre > 0 THEN "allSPWIDs" ELSE "",
                          spws[i], i,
                          IF npre = 0 THEN dependencies ELSE <<>>)]

\* the runs inside the spw directories (lines 620-635)
NestedLines(spws, precal_scripts, dependencies) ==
    LET npre == Len(precal_scripts)
        partition == EndsWithPartition(precal_scripts)
    IN  [i \in 1..Len(spws) |->
               NestedLine(IF i = 1 THEN "set" ELSE "append",
                          IF partition THEN "task"
                          ELSE IF npre > 0 THEN "var"
                          ELSE IF dependencies # <<>> THEN "literal" ELSE "none",
                          IF partition THEN "partitionID"
                          ELSE IF npre > 0 THEN "allSPWIDs" ELSE "",
                          spws[i], i - 1,
                          IF npre = 0 THEN dependencies ELSE <<>>)]

\* the submissions of the postcal scripts, scripts being those after the
\* selfcal loops were put in (lines 655-666)
PostcalLines(scripts, npre) ==
    IF Len(scripts) = 0 THEN <<>>
    ELSE <<SbatchLine("allSPWIDs", IF npre = 0 THEN "set" ELSE "append",
                      "afterany", "IDs", FALSE, scripts[1])>>
         \o [k \in 1..(Len(scripts) - 1) |->
                SbatchLine("allSPWIDs", "append", "afterok", "allSPWIDs", TRUE, scripts[k + 1])]

\* the lines of the master script over all spw directories (lines 577-694)
SpwMasterLines(config, SPWs, precal_scripts, postcal_scripts, dependencies, timestamp) ==
    <<Shebang>> \o PrecalLines(precal_scripts, dependencies)
    \o PartitionLines(precal_scripts)
    \o <<DateLine(timestamp)>>
    \o NestedLines(SplitComma(StripPrefix(SPWs)), precal_scripts, dependencies)
    \o PostcalLines(SelfcalUnroll(config, postcal_scripts), Len(precal_scripts))
    \o <<AncillaryLine("IDs")>>
    \o (IF Len(precal_scripts) + Len(postcal_scripts) > 0
        THEN <<AncillaryLine("allSPWIDs")>> ELSE <<>>)

\* SPW_run_call: [-R --run] in each spw directory that exists (lines 699-707);
\* a run inside a directory reads the time after the run that starts it did
RECURSIVE SpwRunCall(_, _, _, _)
SpwRunCall(p, spws, i, now) ==
    IF i > Len(spws) THEN [p EXCEPT !.ids = <<>>]
    ELSE IF \E d \in p.wd.dirs : d.name = spws[i]
    THEN SpwRunCall(BackFrom(p.wd, TheDir(p.wd, spws[i]),
                             Run(DirAsWd(TheDir(p.wd, spws[i])), p.jobs, spws[i], PlanArgs,
                                 now + 1)),
                    spws, i + 1, now)
    ELSE SpwRunCall(p, spws, i + 1, now)

NotRaised(p) == [wd |-> p.wd, jobs |-> p.jobs, ids |-> p.ids, raised |-> FALSE]

write_spw_master(wd, jobs, here, SPWs, precal_scripts, postcal_scripts, submit, dependencies, timestamp, now) ==
    SubmitIfAsked(
        NotRaised(SpwRunCall([wd |-> [wd EXCEPT !.master =
                                         SpwMasterLines(wd.cfg, SPWs, precal_scripts,
                                                        postcal_scripts, dependencies,
                                                        timestamp)],
                              jobs |-> jobs, ids |-> <<>>],
                             SplitComma(StripPrefix(SPWs)), 1, now)),
        here, submit, now)

\* ------------------------------------------------------------ write_jobs
\* list[:n] and list[n:], with Python's negative and out-of-range n
SliceAt(seq, n) ==
    IF n < 0 THEN (IF Len(seq) + n < 0 THEN 0 ELSE Len(seq) + n)
    ELSE IF n > Len(seq) THEN Len(seq) ELSE n

SliceTo(seq, n) == SubSeq(seq, 1, SliceAt(seq, n))

SliceFrom(seq, n) == SubSeq(seq, SliceAt(seq, n) + 1, Len(seq))

\* the loop over the scripts (lines 987-996), from script i on
RECURSIVE WriteSbatchFiles(_, _, _, _)
WriteSbatchFiles(w, kw, crosscal, i) ==
    IF w.raised \/ i > Len(kw.scripts) THEN w
    ELSE WriteSbatchFiles(
             write_sbatch(w.wd, kw.scripts[i], IF kw.threadsafe[i] THEN kw.nodes ELSE 1,
                          IF kw.threadsafe[i] THEN kw.ntasks_per_node ELSE 1, kw.mem,
                          JobName(kw.scripts[i]), IF kw.threadsafe[i] THEN kw.plane ELSE 1,
                          kw.partition, crosscal.spw, crosscal.nspw, kw.justrun),
             kw, crosscal, i + 1)

SbatchScripts(kw) == [i \in 1..Len(kw.scripts) |-> SbatchName(kw.scripts[i])]

\* the master script written once the sbatch files are (lines 999-1009)
WriteMasterScript(w, jobs, here, kw, now) ==
    IF w.raised THEN [wd |-> w.wd, jobs |-> jobs, ids |-> <<>>, raised |-> TRUE]
    ELSE IF w.wd.cfg.nspw > 1
    THEN write_spw_master(w.wd, jobs, here, w.wd.cfg.spw,
                          SliceTo(SbatchScripts(kw), kw.num_precal_scripts),
                          SliceFrom(SbatchScripts(kw), kw.num_precal_scripts),
                          kw.submit, kw.dependencies, kw.timestamp, now)
    ELSE write_master(w.wd, jobs, here, SbatchScripts(kw), kw.submit, kw.dependencies, now)

write_jobs(wd, jobs, here, kw, now) ==
    WriteMasterScript(WriteSbatchFiles([wd |-> wd, raised |-> FALSE], kw, wd.cfg, 1),
                      jobs, here, kw, now)

\* ------------------------------------------------------------ inputs of spw_split
IntText(n) == [v |-> Whole(n), dot |-> FALSE]
FloatText(n) == [v |-> Whole(n), dot |-> TRUE]
HalfText(n) == [v |-> Half(n), dot |-> TRUE]

LowTexts == {IntText(0), IntText(1), IntText(900), FloatText(900), HalfText(900)}
HighTexts == {IntText(3), IntText(7), IntText(8), HalfText(10), IntText(1670), FloatText(1670), HalfText(1670)}
Units == {"MHz", "GHz", ""}

RangeSpecs ==
    {RangeText(TRUE, lo, hi, u) : lo \in LowTexts, hi \in {h \in HighTexts : TRUE}, u \in Units}

SingleRanges == {r \in RangeSpecs : r.lo.v < r.hi.v}

MHz(lo, hi) == RangeText(TRUE, lo, hi, "MHz")

ListSpecs ==
    {ListText(<<MHz(IntText(900), IntText(1092)), MHz(IntText(1092), IntText(1284))>>),
     ListText(<<MHz(IntText(900), IntText(1092)), MHz(IntText(1092), IntText(1284)), MHz(IntText(1285), IntText(1477))>>),
     ListText(<<MHz(FloatText(900), HalfText(1092)), MHz(HalfText(1092), FloatText(1285))>>),
     ListText(<<RangeText(TRUE, IntText(0), IntText(1023), ""), RangeText(TRUE, IntText(1024), IntText(2047), "")>>),
     ListText(<<MHz(IntText(900), IntText(1092)), RangeText(TRUE, IntText(0), IntText(1023), "")>>),
     ListText(<<RangeText(TRUE, IntText(0), IntText(1023), ""), MHz(IntText(900), IntText(1092))>>),
     ListText(<<BadText, MHz(IntText(900), IntText(1092))>>),
     ListText(<<MHz(IntText(900), IntText(1092)), BadText>>)}

MalformedSpecs == {BadText, RangeText(FALSE, IntText(900), IntText(1670), "MHz")}

Bad(lo, hi) == RangeText(FALSE, lo, hi, "MHz")

BadFreqLists ==
    {<<>>,
     <<Bad(HalfText(1092), IntText(1285))>>,
     <<Bad(IntText(1092), IntText(1284))>>,
     <<Bad(IntText(0), IntText(2))>>,
     <<Bad(IntText(0), IntText(2000))>>,
     <<Bad(IntText(933), IntText(960)), Bad(IntText(1285), IntText(1670))>>,
     <<Bad(IntText(900), IntText(1300))>>}

SplitConfigs ==
    {[BaseConfig EXCEPT !.spw = spw, !.nspw = n, !.badfreqranges = bad]
        : spw \in SingleRanges \cup ListSpecs \cup MalformedSpecs,
          n \in 2..MaxNspw, bad \in BadFreqLists}

\* ------------------------------------------------------------ SpecSplit
\* spw_split called as format_args calls it (line 1292), on every input drawn
InitSplit ==
    /\ pc = "start"
    /\ argv = PlanArgs
    /\ cfg \in SplitConfigs
    /\ dirs = {}
    /\ ret = NoRet
    /\ top = NoTopFiles
    /\ kwds = NoKwargs
    /\ queue = <<>>
    /\ clock = 1
    /\ runs = <<>>

SplitCall ==
    /\ pc = "start"
    /\ cfg.nspw > 1
    /\ \E partition \in BOOLEAN :
          LET r == spw_split(cfg.spw, cfg.nspw, cfg, dirs, cfg.mem, cfg.badfreqranges,
                             cfg.vis, partition, cfg.createmms)
          IN  /\ pc' = IF r.raised THEN "raised" ELSE "split"
              /\ cfg' = r.cfg
              /\ dirs' = r.dirs
              /\ ret' = [spw |-> cfg.spw, nspw |-> cfg.nspw, ret |-> r.ret, raised |-> r.raised,
                        all |-> r.all, SPWs |-> r.SPWs]
              /\ UNCHANGED <<argv, top, kwds, queue, clock, runs>>

NextSplit == SplitCall

SpecSplit == InitSplit /\ [][NextSplit]_vars

\* ------------------------------------------------------------ claims on spw_split
\* the bounds of the range spec handed to spw_split, and of its i-th sub-range
InBounds == get_spw_bounds(ret.spw)
SubBounds(i) == get_spw_bounds(ret.all[i])
SplitOfRange == pc = "split" /\ ~InBounds.none /\ ~InBounds.raised

Scenario(bad) ==
    /\ pc = "split"
    /\ ret.spw = MHz(IntText(900), IntText(1670))
    /\ ret.nspw = 4
    /\ cfg.badfreqranges = bad

SubRangeValues(SPWs) ==
    [i \in 1..Len(SPWs) |-> <<get_spw_bounds(SPWs[i]).low, get_spw_bounds(SPWs[i]).high>>]

SplitUnit == IF ~InBounds.none THEN InBounds.unit ELSE SubBounds(1).unit

\* low >= bad_low and high <= bad_high for some bad frequency range
Encompassed(sub) ==
    /\ SplitUnit = "MHz"
    /\ \E k \in 1..Len(cfg.badfreqranges) :
          /\ get_spw_bounds(sub).low >= get_spw_bounds(AddPrefix(cfg.badfreqranges[k])).low
          /\ get_spw_bounds(sub).high <= get_spw_bounds(AddPrefix(cfg.badfreqranges[k])).high

Survives(sub) == ~Encompassed(sub)

\* C11: a sub-range is removed by the pruning loop exactly when the unit is
\* MHz and some bad frequency range has bad_low <= low and high <= bad_high,
\* equal boundaries included; with another unit nothing is removed; the count
\* returned is the number of sub-ranges left, and those keep their order.
C11_DroppedIffEncompassed ==
    (pc = "split" /\ Len(ret.all) > 0) =>
        /\ ret.SPWs = SelectSeq(ret.all, Survives)
        /\ ret.ret = Len(ret.SPWs)
        /\ SplitUnit # "MHz" => ret.SPWs = ret.all

\* C11 witness: a sub-range whose bounds equal those of a bad range was
\* dropped from the middle, the sub-ranges around it were kept
C11_BoundaryTouchDropped ==
    /\ pc = "split"
    /\ Len(ret.all) = 4
    /\ \E k \in 1..Len(cfg.badfreqranges) :
          /\ get_spw_bounds(AddPrefix(cfg.badfreqranges[k])).low = SubBounds(2).low
          /\ get_spw_bounds(AddPrefix(cfg.badfreqranges[k])).high = SubBounds(2).high
    /\ ret.SPWs = <<ret.all[1], ret.all[3], ret.all[4]>>
    /\ ret.ret = 3

\* ------------------------------------------------------------ claims on the forms of the spw spec
\* spw_split was called with a comma-separated list, and returned or raised
ListGiven == pc \in {"split", "raised"} /\ HasComma(ret.spw)

\* C15 (as claimed): for a comma-separated list spw_split takes the elements
\* of the list as they are and in their order as the partitions, sets the
\* count to the length of the list when the two differ, and never raises.
C15_ListTakenNeverRaises ==
    ListGiven =>
        /\ ~ret.raised
        /\ ret.all = ret.spw.items
        /\ ret.ret = Len(ret.SPWs)
        /\ ret.SPWs = SelectSeq(ret.all, Survives)

\* the case in which the code departs from C15: an element of the list that is
\* not of the form <prefix>:<low>~<high><unit> makes the call raise
C15_RaisedOnListElement ==
    /\ ListGiven
    /\ ret.raised
    /\ \E i \in 1..Len(ret.spw.items) : get_spw_bounds(ret.spw.items[i]).none
    /\ cfg.spw = ret.spw
    /\ dirs = {}

\* ------------------------------------------------------------ inputs of a run
MaxRuns == 2

\* a job of another pipeline, already in the queue, that --dependencies can name
ExternalJob ==
    [script |-> NoScript, dir |-> BadText, dtype |-> "none", deps |-> <<>>, kill |-> FALSE,
     state |-> "pending"]

PRECAL_SCRIPTS == <<Stage("calc_refant", FALSE), Stage("partition", TRUE)>>

POSTCAL_SCRIPTS ==
    <<Stage("concat", FALSE), Stage("plotcal_spw", FALSE), Stage("selfcal_part1", TRUE),
      Stage("selfcal_part2", FALSE), Stage("science_image", TRUE)>>

SCRIPTS ==
    <<Stage("validate_input", FALSE), Stage("flag_round_1", TRUE), Stage("calc_refant", FALSE),
      Stage("split", TRUE), Stage("quick_tclean", TRUE)>>

PrecalLists == {<<>>, PRECAL_SCRIPTS, <<Stage("partition", TRUE)>>, <<Stage("calc_refant", FALSE)>>}

CoreLists ==
    {<<>>, SCRIPTS,
     <<Stage("flag_round_1", TRUE), Stage("selfcal_part1", TRUE), Stage("selfcal_part2", FALSE)>>,
     <<Stage("selfcal_part2", FALSE), Stage("selfcal_part1", TRUE)>>}

PostcalLists ==
    {<<>>, POSTCAL_SCRIPTS, <<Stage("concat", FALSE)>>, <<Stage("calc_refant", FALSE)>>,
     <<Stage("selfcal_part1", TRUE), Stage("plotcal_spw", FALSE), Stage("selfcal_part2", FALSE)>>}

\* [selfcal] section present?, nloops, loop
SelfcalParams == {<<FALSE, 0, 0>>, <<TRUE, 4, 1>>, <<TRUE, 2, 0>>, <<TRUE, 1, 1>>}

DefaultConfig ==
    [BaseConfig EXCEPT !.spw = MHz(IntText(900), IntText(1670)), !.nspw = 2,
                       !.precal_scripts = PRECAL_SCRIPTS, !.scripts = SCRIPTS,
                       !.postcal_scripts = POSTCAL_SCRIPTS,
                       !.selfcal = TRUE, !.nloops = 2, !.loop = 0]

\* configs that vary the stage lists
StageConfigs ==
    {[DefaultConfig EXCEPT !.nspw = n, !.precal_scripts = pre, !.scripts = core,
                           !.postcal_scripts = post, !.calcrefant = refant,
                           !.selfcal = sc[1], !.nloops = sc[2], !.loop = sc[3]]
        : n \in 1..2, pre \in PrecalLists, core \in CoreLists, post \in PostcalLists,
          refant \in BOOLEAN, sc \in SelfcalParams}

TaskCounts == {0, 1, 3, 4, 5, 8, 16, 17}

\* configs that vary the resources asked of SLURM
ResourceConfigs ==
    {[DefaultConfig EXCEPT !.nspw = n, !.ntasks_per_node = t, !.dopol = pol,
                           !.createmms = mms[1], !.keepmms = mms[2], !.nodes = nodes,
                           !.plane = IF t = 0 THEN 0 ELSE 1]
        : n \in {1, 2, MaxNspw}, t \in TaskCounts, pol \in BOOLEAN, nodes \in {1, 3},
          mms \in {<<TRUE, TRUE>>, <<TRUE, FALSE>>, <<FALSE, TRUE>>}}
    \cup
    {[DefaultConfig EXCEPT !.nspw = n, !.nodes = nodes, !.mem = mem, !.partition = part,
                           !.plane = plane, !.account = account, !.reservation = res,
                           !.complete = whole]
        : n \in 1..2, nodes \in {0, 3, 4}, mem \in {8, 24, 26, 27},
          part \in {"Main", "HighMem"}, plane \in {1, 9},
          account \in {"b03-idia-ag", "nobody"}, res \in {"", "booked"}, whole \in BOOLEAN}

\* configs that vary the spw spec, the number of spws and the bad frequency ranges
SpwConfigs ==
    {[DefaultConfig EXCEPT !.spw = c.spw, !.nspw = c.nspw, !.badfreqranges = c.badfreqranges]
        : c \in SplitConfigs}

\* configs whose spw is neither a range nor a list, with varying precal and postcal lists
MalformedConfigs ==
    {[DefaultConfig EXCEPT !.spw = spw, !.nspw = n, !.precal_scripts = pre,
                           !.postcal_scripts = post, !.calcrefant = refant]
        : spw \in MalformedSpecs, n \in {2, MaxNspw}, pre \in PrecalLists,
          post \in {<<>>, POSTCAL_SCRIPTS}, refant \in BOOLEAN}

Dependencies == {<<>>, <<Ref(1)>>}

CommandLines ==
    {[submit |-> FALSE, quiet |-> FALSE, dependencies |-> d, justrun |-> j]
        : d \in Dependencies, j \in BOOLEAN}

\* ------------------------------------------------------------ SpecPlan
Wd == [cfg |-> cfg, tmp |-> top.tmp, sbatch |-> top.sbatch, master |-> top.master,
       dirs |-> dirs]

InitPlan ==
    /\ pc = "start"
    /\ \/ cfg \in StageConfigs /\ argv \in CommandLines
       \/ /\ cfg \in ResourceConfigs \cup SpwConfigs \cup MalformedConfigs
          /\ argv = [PlanArgs EXCEPT !.quiet = FALSE]
    /\ dirs = {}
    /\ ret = NoRet
    /\ top = NoTopFiles
    /\ kwds = NoKwargs
    /\ queue = <<ExternalJob>>
    /\ clock = 1
    /\ runs = <<>>

\* processMeerKAT.py --config <config> --run [--submit] [--dependencies ...] [--justrun]
\* the state a run r leaves
Ran(r) ==
    /\ pc' = IF r.raised THEN "raised" ELSE IF r.kwargs.submit THEN "submitted" ELSE "written"
    /\ cfg' = r.wd.cfg
    /\ dirs' = r.wd.dirs
    /\ top' = [tmp |-> r.wd.tmp, sbatch |-> r.wd.sbatch, master |-> r.wd.master]
    /\ kwds' = r.kwargs
    /\ queue' = r.jobs
    /\ runs' = Append(runs, [before |-> cfg, raised |-> r.raised,
                             nspw |-> r.wd.cfg.nspw, spw |-> r.wd.cfg.spw])

RunPipeline ==
    /\ Len(runs) < MaxRuns
    /\ Ran(Run(Wd, queue, BadText, argv, clock))
    /\ clock' = clock + 2
    /\ UNCHANGED <<argv, ret>>

NextPlan == RunPipeline

SpecPlan == InitPlan /\ [][NextPlan]_vars

\* ------------------------------------------------------------ claims on the selfcal loops
\* the stage list the last run handed to the writer of the top-level master script:
\* all stages for one spw, the postcal stages otherwise
UnrolledList ==
    LET scripts == [i \in 1..Len(kwds.scripts) |-> SbatchName(kwds.scripts[i])]
    IN  IF cfg.nspw > 1 THEN SliceFrom(scripts, kwds.num_precal_scripts) ELSE scripts

IsSelfcal(line) ==
    line.op = "sbatch" /\ line.script \in {Sbatch("selfcal_part1"), Sbatch("selfcal_part2")}

\* the selfcal submissions of the top-level master script, in order
SelfcalSubmissions ==
    LET lines == SelectSeq(top.master, IsSelfcal)
    IN  [i \in 1..Len(lines) |-> lines[i].script.base]

\* nloops=4, loop=1 and selfcal_part1 immediately followed by selfcal_part2
FourLoopsFromOne ==
    /\ pc = "written"
    /\ cfg.selfcal /\ cfg.nloops = 4 /\ cfg.loop = 1
    /\ Index(UnrolledList, Sbatch("selfcal_part1")) # 0
    /\ Index(UnrolledList, Sbatch("selfcal_part2")) = Index(UnrolledList, Sbatch("selfcal_part1")) + 1

\* the selfcal stages the list holds after that first pair, which are emitted once each
AfterFirstPair ==
    LET rest == SubSeq(UnrolledList, Index(UnrolledList, Sbatch("selfcal_part2")) + 1,
                       Len(UnrolledList))
        late == SelectSeq(rest, LAMBDA x : x \in {Sbatch("selfcal_part1"), Sbatch("selfcal_part2")})
    IN  [i \in 1..Len(late) |-> late[i].base]

\* C4 (as claimed): with nloops=4, loop=1 and selfcal_part1 immediately followed
\* by selfcal_part2, the emitted sequence has 3 selfcal_part1 and 2
\* selfcal_part2, as part1, part2, part1, part2, part1.
C4_ThreeAndTwo ==
    FourLoopsFromOne =>
        SelfcalSubmissions = <<"selfcal_part1", "selfcal_part2", "selfcal_part1",
                               "selfcal_part2", "selfcal_part1">> \o AfterFirstPair

\* C4 (amended): with nloops=4, loop=1 and selfcal_part1 immediately followed
\* by selfcal_part2, the emitted sequence has 4 selfcal_part1 and 3
\* selfcal_part2: nloops - loop = 3 pairs part1, part2 and then one more part1.
C4_FourAndThree ==
    FourLoopsFromOne =>
        SelfcalSubmissions = <<"selfcal_part1", "selfcal_part2", "selfcal_part1",
                               "selfcal_part2", "selfcal_part1", "selfcal_part2",
                               "selfcal_part1">> \o AfterFirstPair

\* a master script of each writer was emitted for such a config
C4_UnrolledByBothWriters ==
    /\ FourLoopsFromOne
    /\ Len(SelfcalSubmissions) > 2
    /\ \E k \in 1..Len(top.master) : top.master[k].op = "nested"

\* ------------------------------------------------------------ claims on the resources
\* every sbatch file on disk, at the top level and in the spw directories
SbatchFiles == top.sbatch \cup UNION {d.sbatch : d \in dirs}

\* C5: every sbatch file written for a config that validate_args accepts asks
\* for at most CPUS_PER_NODE_LIMIT cpus per node: cpus-per-task times
\* ntasks-per-node never exceeds 16, whatever the script, its thread safety
\* and dopol.
C5_CpusWithinNode ==
    \A f \in SbatchFiles : f.cpus * f.tasks <= CPUS_PER_NODE_LIMIT

\* a partition job with dopol that fills the node, next to a job on one task
C5_FullNodeReached ==
    /\ pc = "written"
    /\ \E f \in SbatchFiles : f.name = "partition" /\ f.cpus = 4 /\ f.tasks = 4
    /\ \E f \in SbatchFiles : f.name = "selfcal_part2" /\ f.tasks = 1 /\ f.cpus = CPUS_PER_NODE_LIMIT
    /\ \E f \in SbatchFiles : f.name = "quick_tclean" /\ f.tasks = 4
    /\ cfg.dopol

\* ------------------------------------------------------------ claims on the master scripts
\* every master script on disk, at the top level and in the spw directories
MasterScripts == {top.master} \cup {d.master : d \in dirs}

\* the lines whose dependency expression expands a shell variable
ExpandsVariable(line) == line.op \in {"sbatch", "nested", "cut"} /\ line.dvar # ""

Assigns(line, var) == line.op \in {"assign", "sbatch", "nested", "cut"} /\ line.var = var

\* C6: in every master script written by write_master or write_spw_master,
\* a dependency expression expands only shell variables among Dep, IDs,
\* allSPWIDs and partitionID that a strictly earlier line of the same script
\* assigned, so no submission can depend on itself or on a later one.
C6_NoForwardReference ==
    \A m \in MasterScripts : \A k \in 1..Len(m) :
        ExpandsVariable(m[k]) =>
            /\ m[k].dvar \in {"Dep", "IDs", "allSPWIDs", "partitionID"}
            /\ \E j \in 1..(k - 1) : Assigns(m[j], m[k].dvar)

\* a master script over spw directories that expands all four variables, next
\* to the single-chain master scripts of the directories
C6_AllVariablesExpanded ==
    /\ pc = "written"
    /\ \A v \in {"Dep", "IDs", "allSPWIDs", "partitionID"} :
          \E k \in 1..Len(top.master) : ExpandsVariable(top.master[k]) /\ top.master[k].dvar = v
    /\ \E d \in dirs : \E k \in 1..Len(d.master) : ExpandsVariable(d.master[k])

\* ------------------------------------------------------------ claims on a run with one spw
\* the config the last run started from
Before == runs[Len(runs)].before

SbatchNames(stages) == [i \in 1..Len(stages) |-> SbatchName(stages[i].name)]

\* the scripts the top-level master script submits, in order
Submissions ==
    LET lines == SelectSeq(top.master, LAMBDA l : l.op = "sbatch")
    IN  [i \in 1..Len(lines) |-> lines[i].script]

\* the top-level master script is one chain collecting its identifiers in IDs
SingleChain ==
    \A k \in 1..Len(top.master) :
        /\ top.master[k].op # "nested"
        /\ top.master[k].op = "sbatch" => top.master[k].var = "IDs"

NoArrayJob == \A f \in top.sbatch : ~f.array

\* the last run was planned for one spw with precal or postcal stages
OneSpwWithPrecalOrPostcal ==
    /\ pc = "written"
    /\ Before.nspw = 1
    /\ Len(Before.precal_scripts) > 0 \/ Len(Before.postcal_scripts) > 0

WithoutFirst(seq, x) == IF Index(seq, x) = 0 THEN seq ELSE Pop(seq, Index(seq, x))

\* precal ++ core ++ postcal, less the calc_refant of precal when core has one
\* too, less the first calc_refant left when calcrefant is off
MergedStages ==
    LET refant == Sbatch("calc_refant")
        core == SbatchNames(Before.scripts)
        precal == IF Index(core, refant) # 0
                  THEN WithoutFirst(SbatchNames(Before.precal_scripts), refant)
                  ELSE SbatchNames(Before.precal_scripts)
        all == precal \o core \o SbatchNames(Before.postcal_scripts)
    IN  IF Before.calcrefant THEN all ELSE WithoutFirst(all, refant)

C8_SecondRunSame ==
    (Len(runs) = 2 /\ ~runs[1].raised) =>
        /\ ~runs[2].raised
        /\ runs[2].nspw = runs[1].nspw
        /\ runs[2].spw = runs[1].spw

\* a second run after a first run that dropped a sub-range and kept several
C8_RerunAfterDrop ==
    /\ Len(runs) = 2
    /\ ~runs[1].raised
    /\ runs[1].nspw > 1
    /\ runs[1].nspw < runs[1].before.nspw
    /\ runs[1].before.spw.kind = "range"
    /\ runs[2].spw.kind = "list"

\* ------------------------------------------------------------ SpecSched
\* the plan submitted to SLURM, and SLURM running the jobs
QueueConfigs ==
    {[DefaultConfig EXCEPT !.nspw = n, !.precal_scripts = pre, !.postcal_scripts = post,
                           !.scripts = <<Stage("validate_input", FALSE), Stage("split", TRUE)>>]
        : n \in 1..2,
          pre \in {<<>>, <<Stage("partition", TRUE)>>, PRECAL_SCRIPTS},
          post \in {<<>>, <<Stage("concat", FALSE)>>,
                    <<Stage("concat", FALSE), Stage("plotcal_spw", FALSE)>>}}
    \cup
    {[DefaultConfig EXCEPT !.nspw = 3, !.badfreqranges = <<Bad(IntText(900), IntText(1300))>>,
                           !.postcal_scripts = <<>>,
                           !.scripts = <<Stage("validate_input", FALSE), Stage("split", TRUE)>>]}

SubmitLines ==
    {[submit |-> s, quiet |-> FALSE, dependencies |-> d, justrun |-> FALSE]
        : s \in BOOLEAN, d \in Dependencies}

InitSched ==
    /\ pc = "start"
    /\ cfg \in QueueConfigs
    /\ argv \in SubmitLines
    /\ dirs = {}
    /\ ret = NoRet
    /\ top = NoTopFiles
    /\ kwds = NoKwargs
    /\ queue = <<ExternalJob>>
    /\ clock = 1
    /\ runs = <<>>

FirstRun == pc = "start" /\ RunPipeline

Submitted(r) ==
    /\ cfg' = r.wd.cfg
    /\ dirs' = r.wd.dirs
    /\ top' = [tmp |-> r.wd.tmp, sbatch |-> r.wd.sbatch, master |-> r.wd.master]
    /\ queue' = r.jobs

\* the user runs ./submit_pipeline.sh
SubmitMaster ==
    /\ pc = "written"
    /\ Submitted(RunMaster(Wd, queue, BadText, clock))
    /\ pc' = "submitted"
    /\ clock' = clock + 2
    /\ UNCHANGED <<argv, ret, kwds, runs>>

Terminated(j) == queue[j].state \in {"completed", "failed", "cancelled"}

DepIds(job) == {job.deps[k].id : k \in 1..Len(job.deps)}

\* -d afterok:... is satisfied once every job named completed successfully,
\* -d afterany:... once every job named terminated
Eligible(job) ==
    \/ job.dtype = "none"
    \/ job.dtype = "afterok" /\ \A d \in DepIds(job) : queue[d].state = "completed"
    \/ job.dtype = "afterany" /\ \A d \in DepIds(job) : Terminated(d)

\* an afterok dependency that can never be satisfied
Invalid(job) ==
    job.dtype = "afterok" /\ \E d \in DepIds(job) : queue[d].state \in {"failed", "cancelled"}

\* a pending job whose dependency is satisfied runs, and succeeds or fails
JobRuns ==
    /\ \E j \in 1..Len(queue) : \E outcome \in {"completed", "failed"} :
          /\ queue[j].state = "pending"
          /\ Eligible(queue[j])
          /\ queue' = [queue EXCEPT ![j].state = outcome]
    /\ UNCHANGED <<pc, argv, cfg, dirs, ret, top, kwds, clock, runs>>

\* --kill-on-invalid-dep=yes
JobKilled ==
    /\ \E j \in 1..Len(queue) :
          /\ queue[j].state = "pending"
          /\ queue[j].kill
          /\ Invalid(queue[j])
          /\ queue' = [queue EXCEPT ![j].state = "cancelled"]
    /\ UNCHANGED <<pc, argv, cfg, dirs, ret, top, kwds, clock, runs>>

NextSched == FirstRun \/ SubmitMaster \/ JobRuns \/ JobKilled

SpecSched == InitSched /\ [][NextSched]_vars

\* ------------------------------------------------------------ claims on the submitted jobs
\* the jobs submitted inside the spw directories: the partition chains
ChainJobs == {j \in 1..Len(queue) : queue[j].dir # BadText}

\* the first postcal job of the master script over the spw directories
FirstPostcal(j) == queue[j].dir = BadText /\ queue[j].dtype = "afterany"

\* C9: the first postcal job depends with afterany on the jobs of every
\* partition chain: while it waits, SLURM finds it eligible exactly when all
\* jobs of all chains have terminated, whether they completed, failed or were
\* cancelled, and it never runs or is cancelled before that.
C9_PostcalAfterAllChains ==
    \A j \in 1..Len(queue) :
        FirstPostcal(j) =>
            /\ ChainJobs # {}
            /\ queue[j].state = "pending" =>
                  (Eligible(queue[j]) <=> \A c \in ChainJobs : Terminated(c))
            /\ queue[j].state # "pending" =>
                  /\ queue[j].state # "cancelled"
                  /\ \A c \in ChainJobs : Terminated(c)

\* the first postcal job ran although one chain failed and the rest of that
\* chain was cancelled, while the other chain completed
C9_RanAfterFailedChain ==
    \E j \in 1..Len(queue) :
        /\ FirstPostcal(j)
        /\ queue[j].state = "completed"
        /\ \E c \in ChainJobs : queue[c].state = "failed"
        /\ \E c \in ChainJobs : queue[c].state = "cancelled"
        /\ \E c \in ChainJobs : queue[c].state = "completed"

\* ------------------------------------------------------------ claims on the chains
\* the submissions of one chain of a master script: those of a single-chain
\* master script or an spw directory (capture "IDs"), or the precal group of
\* the master script over the spw directories (capture "allSPWIDs", before
\* the first run inside a directory)
ChainOf(m, var) ==
    SelectSeq(m, LAMBDA l : l.op = "sbatch" /\ l.var = var /\ l.dtype # "afterany")

IsNested(m) == \E k \in 1..Len(m) : m[k].op = "nested"

PrecalGroup(m) ==
    LET first == CHOOSE k \in 1..Len(m) : m[k].op = "nested" /\ \A i \in 1..(k - 1) : m[i].op # "nested"
    IN  ChainOf(SubSeq(m, 1, first), "allSPWIDs")

Chains ==
    {ChainOf(m, "IDs") : m \in {x \in MasterScripts : ~IsNested(x)}}
    \cup {PrecalGroup(m) : m \in {x \in MasterScripts : IsNested(x)}}

\* every submission after the first waits with afterok for all identifiers the
\* chain captured before it
LaterAfterOk(chain) ==
    \A k \in 2..Len(chain) :
        /\ chain[k].dtype = "afterok"
        /\ chain[k].dvar = chain[k].var
        /\ chain[k].assign = "append"
        /\ chain[k].kill

HasDep(m) == \E k \in 1..Len(m) : m[k].op = "assign" /\ m[k].var = "Dep" /\ m[k].deps # <<>>

Emitted ==
    IF IsNested(top.master)
    THEN LET last == CHOOSE k \in 1..Len(top.master) :
                        /\ top.master[k].op = "nested"
                        /\ \A i \in (k + 1)..Len(top.master) : top.master[i].op # "nested"
             lines == SelectSeq(SubSeq(top.master, last + 1, Len(top.master)),
                                LAMBDA l : l.op = "sbatch")
         IN  [i \in 1..Len(lines) |-> lines[i].script]
    ELSE Submissions

\* the positions k with selfcal_part1 at k and selfcal_part2 at k + 1
PairPositions(list) ==
    {k \in 1..(Len(list) - 1) :
        list[k] = Sbatch("selfcal_part1") /\ list[k + 1] = Sbatch("selfcal_part2")}

FirstPair(list) == CHOOSE k \in PairPositions(list) : \A j \in PairPositions(list) : k <= j

\* n - 1 more pairs and one selfcal_part1 put in directly after the pair at k
Spliced(list, k, n) ==
    SubSeq(list, 1, k + 1)
    \o Times(<<Sbatch("selfcal_part1"), Sbatch("selfcal_part2")>>, n - 1)
    \o <<Sbatch("selfcal_part1")>>
    \o SubSeq(list, k + 2, Len(list))

\* a master script was written with a [selfcal] section and nloops > loop
LoopsLeft == pc = "written" /\ cfg.selfcal /\ cfg.nloops - cfg.loop > 0

\* C12 (as claimed): when the stage list contains selfcal_part1 immediately
\* followed by selfcal_part2 and L = nloops - loop > 0, L - 1 more pairs and
\* then one selfcal_part1 are put in directly after the first pair, and the
\* stages before and after stay as they were.
C12_SplicedAfterAnyPair ==
    (LoopsLeft /\ PairPositions(UnrolledList) # {}) =>
        Emitted = Spliced(UnrolledList, FirstPair(UnrolledList), cfg.nloops - cfg.loop)

\* C12 (amended): when the first selfcal_part1 of the stage list is immediately
\* followed by the first selfcal_part2 of the list and L = nloops - loop > 0,
\* L - 1 more pairs and then one selfcal_part1 are put in directly after that
\* pair, and the stages before and after stay as they were.
C12_SplicedAfterFirstOccurrences ==
    (/\ LoopsLeft
     /\ Index(UnrolledList, Sbatch("selfcal_part1")) # 0
     /\ Index(UnrolledList, Sbatch("selfcal_part2"))
           = Index(UnrolledList, Sbatch("selfcal_part1")) + 1) =>
        Emitted = Spliced(UnrolledList, Index(UnrolledList, Sbatch("selfcal_part1")),
                          cfg.nloops - cfg.loop)

\* C12 witness: three loops spliced into a list with stages before and after
\* the pair, by the writer of the master script over the spw directories
C12_ThreeLoopsSpliced ==
    /\ LoopsLeft
    /\ cfg.nloops - cfg.loop = 3
    /\ IsNested(top.master)
    /\ Index(UnrolledList, Sbatch("selfcal_part1")) > 1
    /\ Index(UnrolledList, Sbatch("selfcal_part2"))
          = Index(UnrolledList, Sbatch("selfcal_part1")) + 1
    /\ Index(UnrolledList, Sbatch("selfcal_part2")) < Len(UnrolledList)
    /\ Len(Emitted) = Len(UnrolledList) + 5

\* C13 (as claimed): the selfcal stages are unrolled only when the pair is
\* adjacent as selfcal_part1, selfcal_part2 and nloops > loop; when the pair is
\* not adjacent in that order, or nloops <= loop, the emitted stage sequence is
\* the configured one and no stage is added.
C13_UnchangedUnlessLoopsLeft ==
    (pc = "written" /\ (PairPositions(UnrolledList) = {} \/ cfg.nloops <= cfg.loop)) =>
        Emitted = UnrolledList

\* the case in which the code departs from C13: a [selfcal] section with
\* nloops <= loop and the pair adjacent, and the master script submits one
\* selfcal_part1 more than the list holds, right after the pair
C13_TrailingPartAddedWithoutLoops ==
    /\ pc = "written"
    /\ cfg.selfcal
    /\ cfg.nloops <= cfg.loop
    /\ PairPositions(UnrolledList) # {}
    /\ Emitted = SubSeq(UnrolledList, 1, FirstPair(UnrolledList) + 1)
                 \o <<Sbatch("selfcal_part1")>>
                 \o SubSeq(UnrolledList, FirstPair(UnrolledList) + 2, Len(UnrolledList))

\* ------------------------------------------------------------ claims on calc_refant
\* the scripts a master script submits, in order
SubmissionsOf(m) ==
    LET lines == SelectSeq(m, LAMBDA l : l.op = "sbatch")
    IN  [i \in 1..Len(lines) |-> lines[i].script]

RefantCount(scripts) == Len(SelectSeq(scripts, LAMBDA x : x = Sbatch("calc_refant")))

\* the scripts the precal group of the master script over the spw directories submits
PrecalSubmissions ==
    [i \in 1..Len(PrecalGroup(top.master)) |-> PrecalGroup(top.master)[i].script]

\* the last run wrote its scripts for a config with calc_refant.py in both
\* the precal list and the core list
RefantInBoth ==
    /\ pc = "written"
    /\ RefantCount(SbatchNames(Before.precal_scripts)) > 0
    /\ RefantCount(SbatchNames(Before.scripts)) > 0

\* the chain up to the calc_refant of the core list, the calc_refant of precal left out
UpToCoreRefant ==
    WithoutFirst(SbatchNames(Before.precal_scripts), Sbatch("calc_refant"))
    \o SubSeq(SbatchNames(Before.scripts), 1,
              Index(SbatchNames(Before.scripts), Sbatch("calc_refant")))

Configured == RefantCount(SbatchNames(Before.precal_scripts \o Before.scripts
                                      \o Before.postcal_scripts))

\* C14 (as claimed): with calc_refant.py in both the precal and the core list,
\* for one spw and for several the calc_refant of precal is left out of the
\* plan and the calc_refant of the core list is the one that runs.
C14_PrecalDroppedCoreRuns ==
    RefantInBoth =>
        IF IsNested(top.master)
        THEN /\ RefantCount(PrecalSubmissions) = RefantCount(SbatchNames(Before.precal_scripts)) - 1
             /\ \A d \in dirs : RefantCount(SubmissionsOf(d.master)) > 0
        ELSE Before.nspw = 1 =>
                SubSeq(Submissions, 1, Len(UpToCoreRefant)) = UpToCoreRefant

\* C14 (amended): with calc_refant.py in both the precal and the core list,
\* a run for one spw with calcrefant on leaves the calc_refant of precal out
\* and submits that of the core list in its place in the chain, and with
\* calcrefant off leaves out that of the core list as well; a run that
\* partitions keeps the calc_refant of precal in the precal group (unless
\* calcrefant is off) and leaves the first calc_refant of the core list out
\* of the chain of every partition, whose config has calcrefant off.
C14_CoreRunsOnlyForOneSpw ==
    RefantInBoth =>
        IF IsNested(top.master)
        THEN /\ RefantCount(PrecalSubmissions) =
                    RefantCount(SbatchNames(Before.precal_scripts))
                    - (IF Before.calcrefant THEN 0 ELSE 1)
             /\ \A d \in dirs :
                    /\ ~d.cfg.calcrefant
                    /\ d.master # <<>> =>
                          RefantCount(SubmissionsOf(d.master)) =
                              RefantCount(SbatchNames(Before.scripts)) - 1
        ELSE Before.nspw = 1 =>
                IF Before.calcrefant
                THEN SubSeq(Submissions, 1, Len(UpToCoreRefant)) = UpToCoreRefant
                ELSE RefantCount(Submissions) = Configured - 2

\* C14 witness: a partitioned plan whose precal group submits calc_refant
\* while the chains of the partitions, planned from the core list, do not
C14_RefantOnlyInPrecalGroup ==
    /\ RefantInBoth
    /\ IsNested(top.master)
    /\ Before.calcrefant
    /\ RefantCount(PrecalSubmissions) = 1
    /\ Cardinality(dirs) > 1
    /\ \A d \in dirs : Len(SubmissionsOf(d.master)) > 1 /\ RefantCount(SubmissionsOf(d.master)) = 0

\* ------------------------------------------------------------ claims on a malformed spw
\* the last run was started for several spws with an spw that is neither a
\* single range nor a comma-separated list
MalformedRun ==
    /\ Len(runs) > 0
    /\ Before.nspw > 1
    /\ Len(Before.scripts) > 0
    /\ get_spw_bounds(Before.spw).none
    /\ ~HasComma(Before.spw)

NotSelfcal(script) == script \notin {Sbatch("selfcal_part1"), Sbatch("selfcal_part2")}

\* the core list of a config as its run submits it when calcrefant is off,
\* the selfcal stages aside
CoreLessRefant(config) ==
    SelectSeq(WithoutFirst(SbatchNames(config.scripts), Sbatch("calc_refant")), NotSelfcal)

\* C17: the config in the directory of every partition that is left has that
\* partition's own range as spw, nspw = 1, calcrefant off and empty precal
\* and postcal lists; a run planned inside the directory (there is one for
\* every partition of a partitioned plan) therefore does not split again (its config and TMP_CONFIG keep nspw = 1 and the one range, its
\* master script runs nothing in sub-directories) and submits one chain made
\* of stages of the core list only, without a job array.
C17_PartitionPlansCoreChain ==
    \A d \in dirs :
        /\ d.cfg.spw.kind = "range" /\ StripPrefix(d.cfg.spw) = d.name
        /\ d.cfg.nspw = 1
        /\ ~d.cfg.calcrefant
        /\ d.cfg.precal_scripts = <<>> /\ d.cfg.postcal_scripts = <<>>
        /\ (pc = "written" /\ IsNested(top.master)) => d.master # <<>>
        /\ d.master # <<>> =>
              /\ d.tmp # <<>> /\ d.tmp[1].nspw = 1 /\ d.tmp[1].spw = d.cfg.spw
              /\ ~IsNested(d.master)
              /\ \A k \in 1..Len(d.master) :
                     d.master[k].op = "sbatch" => d.master[k].var = "IDs"
              /\ LaterAfterOk(ChainOf(d.master, "IDs"))
              /\ \A f \in d.sbatch : ~f.array
              /\ \A i \in 1..Len(SubmissionsOf(d.master)) :
                     \E j \in 1..Len(d.cfg.scripts) :
                         SubmissionsOf(d.master)[i] = SbatchName(d.cfg.scripts[j].name)
              /\ SelectSeq(SubmissionsOf(d.master), NotSelfcal) = CoreLessRefant(d.cfg)

\* C17 witness: several partitions planned from a parent config with precal
\* and postcal stages and calcrefant on
C17_PartitionsPlanned ==
    /\ pc = "written"
    /\ Cardinality(dirs) = MaxNspw
    /\ Before.precal_scripts = PRECAL_SCRIPTS
    /\ Before.postcal_scripts = POSTCAL_SCRIPTS
    /\ Before.calcrefant
    /\ cfg.spw.kind = "list"
    /\ \A d \in dirs : Len(SubmissionsOf(d.master)) > 1 /\ d.cfg.spw # cfg.spw

\* ------------------------------------------------------------ claims on a config that is refused
\* the last run was started on a config that validate_args refuses, or that
\* lacks a section or key
RefusedRun == Len(runs) > 0 /\ (validate_args(Before) \/ ~Before.complete)

\* C18 (as claimed): a run on a config that fails validation or lacks a
\* required section or key raises before any file is written or changed: the
\* config, TMP_CONFIG, the sbatch files, the partition directories and the
\* master script are as they were.
C18_RaisesBeforeAnyWrite ==
    RefusedRun =>
        /\ pc = "raised"
        /\ cfg = Before
        /\ top = NoTopFiles
        /\ dirs = {}
        /\ queue = <<ExternalJob>>

\* the case in which the code departs from C18: the run raised in
\* validate_args after it had rewritten the stage lists of the config
C18_ConfigRewrittenBeforeRaise ==
    /\ Len(runs) = 1
    /\ pc = "raised"
    /\ Before.complete /\ validate_args(Before)
    /\ Before.nspw = 1
    /\ Before.precal_scripts # <<>> /\ cfg.precal_scripts = <<>>
    /\ Before.postcal_scripts # <<>> /\ cfg.postcal_scripts = <<>>
    /\ Len(cfg.scripts) > Len(Before.scripts)
    /\ top = NoTopFiles /\ dirs = {}

\* ------------------------------------------------------------ SpecRerun
\* configs of a pipeline that is run, edited and run again
RerunConfigs ==
    {[DefaultConfig EXCEPT !.nspw = n, !.nodes = nodes, !.partition = part]
        : n \in 1..2, nodes \in {1, 3}, part \in {"Main", "HighMem"}}

InitRerun ==
    /\ pc = "start"
    /\ cfg \in RerunConfigs /\ argv \in CommandLines
    /\ dirs = {}
    /\ ret = NoRet
    /\ top = NoTopFiles
    /\ kwds = NoKwargs
    /\ queue = <<ExternalJob>>
    /\ clock = 1
    /\ runs = <<>>

\* the user edits the [slurm] section of the config named by --config before
\* the next run
EditConfig ==
    /\ pc = "written"
    /\ Len(runs) < MaxRuns
    /\ \E nodes \in {1, 3}, part \in {"Main", "HighMem"} :
          /\ cfg' = [cfg EXCEPT !.nodes = nodes, !.partition = part]
          /\ cfg' # cfg
    /\ UNCHANGED <<pc, argv, dirs, ret, top, kwds, queue, clock, runs>>

NextRerun == RunPipeline \/ EditConfig

SpecRerun == InitRerun /\ [][NextRerun]_vars

\* ------------------------------------------------------------ claims on --justrun
\* the sbatch file f asks for the resources of config c
Fresh(f, c) == f.partition = c.partition /\ f.nodes \in {1, c.nodes}

\* the sbatch file f of the set after is the file of that name in the set
\* before when keep holds and there is one, and is written from config c otherwise
KeptOrWritten(f, before, keep, c) ==
    IF keep /\ \E g \in before : g.name = f.name THEN f \in before ELSE Fresh(f, c)

FilesOf(ds, name) == UNION {d.sbatch : d \in {e \in ds : e.name = name}}

\* C19: with justrun set, write_sbatch leaves an sbatch file that exists as it
\* is; otherwise it writes the file anew. A run without --justrun writes every
\* top-level sbatch file from the config and a run with --justrun keeps the
\* ones that exist; the runs made in the spw directories while the master
\* script is written are not given --justrun and write theirs anew.
C19_JustrunKeepsExistingFile ==
    [][(Len(runs') = Len(runs) + 1 /\ pc' = "written") =>
          /\ \A f \in top'.sbatch : KeptOrWritten(f, top.sbatch, argv.justrun, cfg')
          /\ \A d \in dirs' : \A f \in d.sbatch :
                 KeptOrWritten(f, FilesOf(dirs, d.name), FALSE, d.cfg)]_vars

\* a second run with --justrun has left a file that asks for other resources
\* than the edited config does
C19_StaleFileKept ==
    /\ Len(runs) = 2 /\ pc = "written"
    /\ argv.justrun
    /\ top.sbatch # {}
    /\ \A f \in top.sbatch : ~Fresh(f, cfg)

\* ------------------------------------------------------------ claims on the tasks of the job array
\* the master script gives each run inside an spw directory one task of the
\* partition job to wait for
WaitsForTasks == \E k \in 1..Len(top.master) : top.master[k].op = "nested" /\ top.master[k].dtype = "task"

\* the jobs of the queue that partition.sbatch was submitted as
PartitionJobs == {j \in 1..Len(queue) : queue[j].dir = BadText /\ queue[j].script = Sbatch("partition")}

\* the tasks of job arrays that job j names in its dependency
TasksNamed(j) == {queue[j].deps[k] : k \in {i \in 1..Len(queue[j].deps) : queue[j].deps[i].task >= 0}}

\* the first job submitted inside the spw directory name
FirstIn(name) == CHOOSE j \in ChainJobs : queue[j].dir = name /\ \A i \in ChainJobs : queue[i].dir = name => j <= i

\* C20: when the partition stage is the last precal stage, the run inside the
\* directory of the i-th spw left (counted from 0) is started with a dependency
\* on task i of the partition job array and on nothing else, no other job of
\* that directory names a task, and task i of partition.sbatch changes into
\* that same directory.
C20_RunWaitsForItsOwnTask ==
    (pc = "submitted" /\ WaitsForTasks) =>
        \E p \in PartitionJobs : \E f \in top.sbatch :
            /\ PartitionJobs = {p}
            /\ f.array /\ f.name = "partition"
            /\ f.last = Len(f.spws) - 1
            /\ {d.name : d \in dirs} = {f.spws[i] : i \in 1..Len(f.spws)}
            /\ \A i \in 1..Len(f.spws) :
                  /\ \E j \in ChainJobs : queue[j].dir = f.spws[i]
                  /\ queue[FirstIn(f.spws[i])].dtype = "afterok"
                  /\ queue[FirstIn(f.spws[i])].deps = <<TaskRef(p, i - 1)>>
                  /\ \A j \in ChainJobs \ {FirstIn(f.spws[i])} :
                         queue[j].dir = f.spws[i] => TasksNamed(j) = {}

\* chains were submitted for several spws after a sub-range was dropped, each
\* waiting for a task of the partition job
C20_ChainsAfterDrop ==
    /\ pc = "submitted" /\ WaitsForTasks
    /\ Before.spw.kind = "range"
    /\ Cardinality(dirs) > 1
    /\ Cardinality(dirs) < Before.nspw
    /\ \A d \in dirs : \E j \in ChainJobs : queue[j].dir = d.name /\ TasksNamed(j) # {}

\* ------------------------------------------------------------ claims on the resources of an sbatch file
Smaller(a, b) == IF a < b THEN a ELSE b

\* the cpus all tasks of one element of the job array f use
CpusOf(f) == f.nodes * f.tasks * f.cpus

\* C21: the job array of the partition script is capped at
\* min(floor(200 / (nodes * tasks * cpus)), nspw) tasks at a time, for the
\* nodes and tasks per node of the config (one node and one task when the
\* partition script is not threadsafe), so that the tasks running at a time use
\* at most 200 cpus.
C21_ArrayCapKeepsCpuCeiling ==
    \A f \in top.sbatch :
        f.array =>
            /\ \/ f.nodes = cfg.nodes /\ f.tasks = cfg.ntasks_per_node
               \/ f.nodes = 1 /\ f.tasks = 1 /\ ~cfg.createmms
            /\ f.last = cfg.nspw - 1
            /\ f.cap = Smaller(MaxConcurrentCpus \div CpusOf(f), cfg.nspw)
            /\ f.cap * CpusOf(f) <= MaxConcurrentCpus

\* a job array whose cap is below its number of tasks, one more of which
\* would pass 200 cpus
C21_CapBelowTaskCount ==
    \E f \in top.sbatch :
        /\ f.array
        /\ f.cap < f.last + 1
        /\ f.cap >= 1
        /\ (f.cap + 1) * CpusOf(f) > MaxConcurrentCpus

\* the name of the sbatch file f has the text sub in it
Named(f, sub) == sub \in Substrings(f.name)

\* cpus-per-task as C22 words it, for the file f and the dopol of TMP_CONFIG
ClaimedCpus(f, dopol) ==
    LET computed == IF Named(f, "tclean") \/ Named(f, "selfcal") \/ Named(f, "partition")
                       \/ Named(f, "image")
                    THEN CPUS_PER_NODE_LIMIT \div f.tasks ELSE 1
    IN  IF ~Named(f, "partition") THEN computed
        ELSE IF dopol /\ 4 * f.tasks < CPUS_PER_NODE_LIMIT THEN 4
        ELSE IF ~dopol /\ computed > 2 THEN 2
        ELSE computed

\* C22: cpus-per-task is 1 unless the script name has 'tclean', 'selfcal',
\* 'partition' or 'image' in it, and floor(16 / tasks) then; for a script with
\* 'partition' in its name it is 4 when dopol is set and 4 * tasks < 16, at
\* most 2 when dopol is not set, and as computed otherwise.
C22_CpusPerTaskByName ==
    /\ \A f \in top.sbatch : f.cpus = ClaimedCpus(f, top.tmp[1].dopol)
    /\ \A d \in dirs : \A f \in d.sbatch : f.cpus = ClaimedCpus(f, d.tmp[1].dopol)

\* a partition job cut down to 2 cpus next to an imaging job with
\* floor(16 / 3) = 5 and a job with 1
C22_CappedAtTwo ==
    /\ top.tmp # <<>> /\ ~top.tmp[1].dopol
    /\ \E f \in top.sbatch : f.name = "partition" /\ f.tasks = 3 /\ f.cpus = 2
    /\ \E f \in top.sbatch : f.name = "quick_tclean" /\ f.tasks = 3 /\ f.cpus = 5
    /\ \E f \in top.sbatch : f.name = "flag_round_1" /\ f.tasks = 3 /\ f.cpus = 1

\* the memory limit of a node of the SLURM partition part
MemLimit(part) ==
    IF part = "HighMem" THEN MEM_PER_NODE_GB_LIMIT_HIGHMEM ELSE MEM_PER_NODE_GB_LIMIT

\* the file f asks for the whole memory of a node exactly when its tasks fill
\* the cpus of a node, for the mem of config c otherwise, and never for more
\* than a node of its partition has
MemAsClaimed(f, c) ==
    /\ f.partition = c.partition
    /\ f.mem = IF f.cpus * f.tasks = CPUS_PER_NODE_LIMIT THEN MemLimit(f.partition) ELSE c.mem
    /\ f.mem <= MemLimit(f.partition)

\* C23: write_sbatch asks for the full memory limit of the node (that of
\* HighMem on the HighMem partition) exactly when cpus * tasks equals
\* CPUS_PER_NODE_LIMIT and for the mem passed in otherwise, so no sbatch file
\* asks for more memory than the limit of its partition.
C23_FullMemoryOnFullNode ==
    /\ \A f \in top.sbatch : MemAsClaimed(f, cfg)
    /\ \A d \in dirs : \A f \in d.sbatch : MemAsClaimed(f, d.cfg)

\* on HighMem with mem = 8, a job that fills the node asks for 26 and another
\* for 8
C23_HighMemFullNode ==
    /\ cfg.partition = "HighMem" /\ cfg.mem = 8
    /\ \E f \in top.sbatch :
          f.cpus * f.tasks = CPUS_PER_NODE_LIMIT /\ f.mem = MEM_PER_NODE_GB_LIMIT_HIGHMEM
    /\ \E f \in top.sbatch : f.cpus * f.tasks < CPUS_PER_NODE_LIMIT /\ f.mem = 8

\* ------------------------------------------------------------ SpecCrash
\* spw_split stopped inside its loop over the directories (lines 1446-1475), by
\* an OSError of mkdir or copyfile or by a signal, after k directories were made
SplitStopped ==
    /\ pc = "start"
    /\ cfg.nspw > 1
    /\ \E partition \in BOOLEAN :
          LET r == spw_split(cfg.spw, cfg.nspw, cfg, dirs, cfg.mem, cfg.badfreqranges,
                             cfg.vis, partition, cfg.createmms)
          IN  /\ ~r.raised /\ Len(r.SPWs) > 0
              /\ \E k \in 0..(Len(r.SPWs) - 1) :
                     dirs' = {d \in r.dirs : \E i \in 1..k : d.name = StripPrefix(r.SPWs[i])}
              /\ pc' = "crashed"
              /\ cfg' = r.cfg
              /\ ret' = [spw |-> cfg.spw, nspw |-> cfg.nspw, ret |-> r.ret, raised |-> TRUE,
                        all |-> r.all, SPWs |-> r.SPWs]
              /\ UNCHANGED <<argv, top, kwds, queue, clock, runs>>

\* format_args writes the number spw_split returned to the config (line 1293)
WriteCount ==
    /\ pc = "split"
    /\ cfg' = WriteBackNspw([cfg |-> cfg, dirs |-> dirs, raised |-> FALSE, ret |-> ret.ret]).cfg
    /\ pc' = "counted"
    /\ UNCHANGED <<argv, dirs, ret, top, kwds, queue, clock, runs>>

NextCrash == SplitCall \/ SplitStopped \/ WriteCount

SpecCrash == InitSplit /\ [][NextCrash]_vars

\* ------------------------------------------------------------ claims on the order of the config writes
\* C24 (as claimed): spw_split leaves the parent config alone until every
\* directory and config copy is written, and nspw is the last key of the parent
\* that is overwritten; a crash inside the loop over the directories leaves the
\* parent config with the spw and nspw it had.
C24_CrashLeavesSpwAndNspw ==
    pc = "crashed" => cfg.spw = ret.spw /\ cfg.nspw = ret.nspw

\* the order of the writes the code keeps: nspw is the last key of the parent
\* that is overwritten, after spw_split has returned with every directory and
\* config copy written, but the parent's spw is overwritten with the sub-ranges
\* that are left before the first directory is made
NspwLastSpwFirst ==
    /\ pc = "crashed" =>
          /\ cfg.nspw = ret.nspw
          /\ cfg = [cfg EXCEPT !.spw = Join(ret.SPWs)]
          /\ Cardinality(dirs) < Len(ret.SPWs)
    /\ (pc = "split" /\ Len(ret.SPWs) > 0) =>
          /\ cfg.nspw = ret.nspw
          /\ cfg.spw = Join(ret.SPWs)
          /\ {d.name : d \in dirs} = {StripPrefix(ret.SPWs[i]) : i \in 1..Len(ret.SPWs)}
          /\ \A d \in dirs : d.cfg # <<>> /\ d.cfg.nspw = 1
    /\ pc = "counted" => cfg.nspw = ret.ret /\ (Len(ret.SPWs) > 0 => cfg.spw = Join(ret.SPWs))

\* a crash after the first directory of a range spec of which a sub-range was
\* dropped: the parent's spw is the list of those left, its nspw the number asked for
C24_CrashedWithSpwRewritten ==
    /\ pc = "crashed"
    /\ Cardinality(dirs) = 1
    /\ ret.spw.kind = "range" /\ cfg.spw.kind = "list"
    /\ cfg.spw # ret.spw
    /\ Len(ret.SPWs) < ret.nspw
    /\ cfg.nspw = ret.nspw

\* ------------------------------------------------------------ claims on the lines of write_master
\* the identifiers in IDs once bash has run the master script m from the
\* state as it is
IdsAfter(m) == Exec(m, 1, Wd, queue, NoEnv, BadText, clock).ids

\* the sbatch lines of m capture into IDs, the first with = and the others with +=
CapturesIntoIDs(m) ==
    LET lines == SelectSeq(m, LAMBDA l : l.op = "sbatch")
    IN  \A k \in 1..Len(lines) :
            /\ lines[k].var = "IDs"
            /\ lines[k].assign = IF k = 1 THEN "set" ELSE "append"

\* C25: the master script write_master writes has exactly one sbatch line for
\* each element of the unrolled stage sequence, in the order of that sequence,
\* and running it leaves in IDs the identifier of each submission exactly once.
C25_OneSubmissionPerStage ==
    (pc = "written" /\ ~IsNested(top.master)) =>
        /\ SubmissionsOf(top.master) = SelfcalUnroll(cfg, SbatchScripts(kwds))
        /\ CapturesIntoIDs(top.master)
        /\ IdsAfter(top.master) =
              [i \in 1..Len(SubmissionsOf(top.master)) |-> Ref(Len(queue) + i)]

\* a master script of one chain with the selfcal loops unrolled, of more
\* submissions than the config has stages
C25_UnrolledChainWritten ==
    /\ pc = "written" /\ ~IsNested(top.master)
    /\ Len(SubmissionsOf(top.master)) > Len(kwds.scripts) + 2
    /\ Len(IdsAfter(top.master)) = Len(SubmissionsOf(top.master))
    /\ kwds.dependencies # <<>>

\* ------------------------------------------------------------ claims on a run that ends with one spw
\* the last run started with nspw > 1 and core stages, and resolved one spw
CollapsedRun == pc = "written" /\ Before.nspw > 1 /\ Before.scripts # <<>> /\ cfg.nspw = 1

\* the master script submits the sbatch file of every core stage of the
\* config, calc_refant aside, which calcrefant may take out
CoreSubmitted ==
    \A i \in 1..Len(Before.scripts) :
        Before.scripts[i].name # Script("calc_refant") =>
            \E k \in 1..Len(Submissions) : Submissions[k] = SbatchName(Before.scripts[i].name)

\* C26 (as claimed): when a run that started with nspw > 1 resolves one spw (a
\* malformed spw spec, or one sub-range left after pruning), its plan is the
\* single chain precal ++ core ++ postcal: every core stage is submitted.
C26_CollapsedChainHasCore ==
    CollapsedRun => SingleChain /\ CoreSubmitted

\* a run that started with nspw > 1 and the default lists and resolved one spw
\* wrote one chain of the precal and postcal stages alone
C26_CollapsedWithoutCore ==
    /\ CollapsedRun
    /\ Before.precal_scripts = PRECAL_SCRIPTS
    /\ Before.scripts = SCRIPTS
    /\ Before.postcal_scripts = POSTCAL_SCRIPTS
    /\ SingleChain
    /\ Submissions = SelfcalUnroll(Before, SbatchNames(PRECAL_SCRIPTS \o POSTCAL_SCRIPTS))
    /\ Before.spw.kind = "range" /\ Cardinality(dirs) = 1

\* ------------------------------------------------------------ claims on --justrun over the spw directories
\* C27 (as claimed): a top-level run over several spws that is given --justrun
\* leaves every sbatch file that exists, those inside the spw directories
\* included, with the contents it had.
C27_JustrunKeepsEveryFile ==
    [][(Len(runs') = Len(runs) + 1 /\ argv.justrun /\ pc' = "written" /\ IsNested(top'.master)) =>
          /\ top.sbatch \subseteq top'.sbatch
          /\ \A d \in dirs : \E e \in dirs' : e.name = d.name /\ d.sbatch \subseteq e.sbatch]_vars

\* after a second run with --justrun on an edited config the top-level files
\* still ask for the SLURM partition of the first run, and the files inside
\* the spw directories for that of the edited config
C27_DirectoryFilesRewritten ==
    /\ Len(runs) = 2 /\ pc = "written" /\ IsNested(top.master)
    /\ argv.justrun
    /\ top.sbatch # {} /\ \A f \in top.sbatch : f.partition # cfg.partition
    /\ dirs # {}
    /\ \A d \in dirs : d.sbatch # {} /\ \A f \in d.sbatch : f.partition = cfg.partition

\* ------------------------------------------------------------ claims on the range of the job array
\* C28: an sbatch file with a job array has the tasks 0..nspw-1, nspw being
\* the number of spw directories its command lists, which are the sub-ranges
\* left in the config, each with its directory; the number of tasks run at a
\* time is at least 1 and at most nspw.
C28_OneTaskPerDirectory ==
    \A f \in top.sbatch :
        f.array =>
            /\ f.last = Len(f.spws) - 1
            /\ f.last >= 1
            /\ f.spws = SplitComma(StripPrefix(cfg.spw))
            /\ \A i \in 1..Len(f.spws) : \E d \in dirs : d.name = f.spws[i]
            /\ f.cap >= 1 /\ f.cap <= f.last + 1

\* a job array over the sub-ranges left after one of a range spec was dropped
C28_ArrayOverThoseLeft ==
    /\ pc = "written" /\ Len(runs) = 1
    /\ Before.spw.kind = "range"
    /\ \E f \in top.sbatch :
          /\ f.array
          /\ f.last + 1 < Before.nspw
          /\ Len(f.spws) = Cardinality(dirs)

\* ------------------------------------------------------------ claims on the timestamp
\* the master script m sets DATE, and the DATE it sets
HasDate(m) == \E k \in 1..Len(m) : m[k].op = "date"
DateOf(m) == m[CHOOSE k \in 1..Len(m) : m[k].op = "date"].n

\* the spw directories the top-level master script runs the pipeline in
NestedDirs == {d \in dirs : \E k \in 1..Len(top.master) : top.master[k].op = "nested" /\ top.master[k].spw = d.name}

\* C29: in a run over several spws the timestamp is written to the parent
\* config before the config is copied to the spw directories, so the DATE of
\* the top-level master script and that of the master script in every spw
\* directory are that one timestamp; no run inside a directory makes a new
\* one. (A directory whose run raised for want of a stage has a master script
\* without DATE.)
C29_OneTimestampForAllScripts ==
    (pc = "written" /\ IsNested(top.master)) =>
        /\ cfg.timestamp = clock - 2
        /\ kwds.timestamp = cfg.timestamp
        /\ HasDate(top.master) /\ DateOf(top.master) = cfg.timestamp
        /\ NestedDirs # {}
        /\ \A d \in NestedDirs :
              /\ d.cfg.timestamp = cfg.timestamp
              /\ d.master # <<>>
              /\ HasDate(d.master) => DateOf(d.master) = cfg.timestamp

\* a second run over several spws: every master script has the DATE of the
\* second run
C29_SecondRunNewTimestamp ==
    /\ pc = "written" /\ IsNested(top.master)
    /\ Len(runs) = 2 /\ ~runs[1].raised
    /\ Cardinality(NestedDirs) > 1
    /\ HasDate(top.master) /\ DateOf(top.master) > 1
    /\ \A d \in NestedDirs : HasDate(d.master) /\ DateOf(d.master) = DateOf(top.master)

\* ------------------------------------------------------------ claims on a run without stages
\* the first run was started on a config that validate_args accepts and that
\* has no stage in any of its three lists
NothingToDo ==
    /\ Len(runs) = 1
    /\ Before.complete /\ ~validate_args(Before)
    /\ Before.precal_scripts = <<>> /\ Before.scripts = <<>> /\ Before.postcal_scripts = <<>>

\* C30 (as claimed): with no stage to submit and one spw, planning stops at
\* the 'Nothing to do' message: no master script is created or truncated and
\* write_master raises no exception.
C30_StopsBeforeMasterScript ==
    NothingToDo => top.master = <<>> /\ pc # "raised"

\* a run without stages went on after the message: TMP_CONFIG was copied, the
\* master script was opened and its first lines written, and scripts[0] raised
C30_MasterScriptCutShort ==
    /\ NothingToDo
    /\ pc = "raised"
    /\ cfg.nspw = 1
    /\ top.tmp # <<>>
    /\ top.sbatch = {}
    /\ Len(top.master) >= 2
    /\ top.master[1] = Shebang /\ top.master[2] = CopyConfig
    /\ \A i \in 1..Len(top.master) : top.master[i].op # "sbatch"

====
